---------------------------- MODULE Spec2Model ----------------------------
(***************************************************************************)
(* A model of NeerSetu's map engine and of its two API routes.             *)
(*                                                                         *)
(*   - the geometry helpers and the InteractiveMap component of the map    *)
(*     visualisation (src/unnamed/part_001): bounds, interpolation,        *)
(*     projection, the hover -> dwell -> zoom state machine, the render;   *)
(*   - GET /api/geojson (src/unnamed/part_000);                            *)
(*   - POST /api/detect-location (src/app/api/detect-location/route.ts).   *)
(*                                                                         *)
(* Numbers that are JavaScript doubles in the source are exact rationals   *)
(* here, [n |-> numerator, d |-> denominator], always in lowest terms      *)
(* with d > 0, so that equal numbers are equal records.                    *)
(***************************************************************************)
EXTENDS Integers, Naturals, Sequences, FiniteSets, TLC

VARIABLES
    \* ---- InteractiveMap: props, useState and useRef cells
    location,            \* the location prop
    loadPc,              \* where loadGeoJson stands: "fetch", "fallback", "done"
    geoJson, districtsGeoJson, allStatesGeoJson, loading, error,
    zoomedFeature, hoveredFeature, viewLevel, hoverProgress,
    hoverTimeoutRef, debounceTimeoutRef, animationFrameRef,
    zoomStartTimeRef, currentHoveredRef, hoverStartTimeRef, hoverAnimationRef,
    now,                 \* Date.now()
    \* ---- history of the pointer, read by the properties only
    mouseOver,           \* the feature whose path the pointer entered last
    lastEnter,           \* the most recent mouse-enter: feature and time
    mouseAway,           \* a mouse-leave happened and no mouse-enter since
    enters,              \* the number of mouse-enter events so far
    \* ---- GET /api/geojson: what the route reads, and the requests served
    geoEnv,              \* the local files, output.geojson, the remote state file
    geoLog,              \* the requests served so far, each with its response
    \* ---- POST /api/detect-location
    detText,             \* body.text of the request
    detOutput,           \* output.geojson as findDistrictInGeoJson reads it
    detResponse,         \* the response, once the request is served
    \* ---- ringToPath and projectPoint
    projIn,              \* the bounds, the canvas size and the ring handed to them
    projOut,             \* what they return, once they have run
    \* ---- ChatPage: useState and useRef cells
    messages, input, isLoading, isListening,
    recognitionRef,      \* the SpeechRecognition object: "none", "starting",
                         \* "active", "stopping", "ended"
    inputValueRef,
    inputEffectPending,  \* a commit changed input and its effect has not run yet
    sendPc,              \* where the sendMessage in flight stands, and its locals
    \* ---- history of the chat page, read by the properties only
    fetches,             \* the requests issued so far
    lastHandler,         \* the handler that ran last, with what it handed to
                         \* sendMessage if it called it, or how its fetch ended
    \* ---- useDebouncedCallback(detectLocation, 300)
    dbTimers,            \* the timeouts set and neither run nor cleared
    dbTimeoutRef,        \* timeoutRef.current: the id of the last timeout set, or 0
    dbNow,               \* the time
    dbMounted,           \* the component is mounted
    dbLastCall,          \* the last call of the debounced function
    dbInvoked,           \* the last invocation of the callback
    \* ---- isPointInPolygon
    pipRing,             \* the ring it is called with
    pipOut               \* what it returns for each point, once it has run

mapVars == <<location, loadPc, geoJson, districtsGeoJson, allStatesGeoJson,
             loading, error, zoomedFeature, hoveredFeature, viewLevel,
             hoverProgress, hoverTimeoutRef, debounceTimeoutRef,
             animationFrameRef, zoomStartTimeRef, currentHoveredRef,
             hoverStartTimeRef, hoverAnimationRef, now, mouseOver, lastEnter,
             mouseAway, enters>>

geoVars == <<geoEnv, geoLog>>

detVars == <<detText, detOutput, detResponse>>

projVars == <<projIn, projOut>>

chatVars == <<messages, input, isLoading, isListening, recognitionRef,
              inputValueRef, inputEffectPending, sendPc, fetches,
              lastHandler>>

dbVars == <<dbTimers, dbTimeoutRef, dbNow, dbMounted, dbLastCall,
            dbInvoked>>

pipVars == <<pipRing, pipOut>>

vars == <<mapVars, geoVars, detVars, projVars, chatVars, dbVars, pipVars>>

-----------------------------------------------------------------------------
(* Exact rational arithmetic.                                              *)

Abs(x) == IF x < 0 THEN -x ELSE x

RECURSIVE GCD(_, _)
GCD(a, b) == IF b = 0 THEN a ELSE GCD(b, a % b)

Rat(n, d) ==
    LET g == GCD(Abs(n), Abs(d))
        s == IF d < 0 THEN -1 ELSE 1
    IN  [n |-> (s * n) \div g, d |-> (s * d) \div g]

RInt(i) == [n |-> i, d |-> 1]
Zero == RInt(0)
One == RInt(1)
RAdd(a, b) == Rat(a.n * b.d + b.n * a.d, a.d * b.d)
RSub(a, b) == Rat(a.n * b.d - b.n * a.d, a.d * b.d)
RMul(a, b) == Rat(a.n * b.n, a.d * b.d)
RDiv(a, b) == Rat(a.n * b.d, a.d * b.n)
\* n1/d1 < n2/d2 for positive d1 and d2, by whole parts and then by the
\* reciprocals of the fractional parts, so that no product is formed
RECURSIVE FracLt(_, _, _, _)
FracLt(n1, d1, n2, d2) ==
    IF n1 \div d1 # n2 \div d2 THEN n1 \div d1 < n2 \div d2
    ELSE IF n2 % d2 = 0 THEN FALSE
    ELSE IF n1 % d1 = 0 THEN TRUE
    ELSE FracLt(d2, n2 % d2, d1, n1 % d1)

RLt(a, b) ==
    IF a.d = 0 \/ b.d = 0 THEN a.n * b.d < b.n * a.d
    ELSE FracLt(a.n, a.d, b.n, b.d)
RLe(a, b) == ~RLt(b, a)
RMin(a, b) == IF RLt(b, a) THEN b ELSE a
RMax(a, b) == IF RLt(a, b) THEN b ELSE a

-----------------------------------------------------------------------------
(* GeoJSON features.  A feature is named by an identifier (the JavaScript  *)
(* object identity the component compares with ===); its geometry is a     *)
(* sequence of polygons, each a sequence of rings, each a sequence of      *)
(* <<lon, lat>> points.  A "Polygon" geometry has exactly one polygon.     *)

NoFeature == "none"

Square(x0, y0, x1, y1) ==
    << <<x0, y0>>, <<x1, y0>>, <<x1, y1>>, <<x0, y1>>, <<x0, y0>> >>

GeometryOf(f) ==
    CASE f = "S1" -> [type |-> "Polygon", polygons |-> << <<Square(0, 0, 4, 4)>> >>]
      [] f = "S2" -> [type |-> "MultiPolygon",
                      polygons |-> << <<Square(4, 0, 8, 4)>>, <<Square(9, 5, 10, 6)>> >>]
      [] f = "O1" -> [type |-> "Polygon", polygons |-> << <<Square(0, 0, 4, 4)>> >>]
      [] f = "D1" -> [type |-> "Polygon", polygons |-> << <<Square(0, 0, 2, 4)>> >>]
      [] f = "D2" -> [type |-> "Polygon", polygons |-> << <<Square(2, 0, 4, 3)>> >>]
      [] f = "P1" -> [type |-> "Polygon", polygons |-> << <<Square(0, 0, 2, 4)>> >>]
      [] OTHER    -> [type |-> "Polygon", polygons |-> << >>]

Range(s) == {s[i] : i \in 1..Len(s)}

\* every coordinate pair of a feature, whatever the nesting (traverse)
PointsOf(f) ==
    LET g == GeometryOf(f)
    IN  UNION {UNION {Range(g.polygons[p][r]) : r \in 1..Len(g.polygons[p])}
               : p \in 1..Len(g.polygons)}

NullBounds ==
    [present |-> FALSE, minLon |-> Zero, maxLon |-> Zero, minLat |-> Zero,
     maxLat |-> Zero, width |-> Zero, height |-> Zero, centerX |-> Zero,
     centerY |-> Zero]

SetMin(S) == CHOOSE x \in S : \A y \in S : x <= y
SetMax(S) == CHOOSE x \in S : \A y \in S : x >= y

calculateBounds(features) ==
    LET pts == UNION {PointsOf(features[i]) : i \in 1..Len(features)}
    IN  IF pts = {} THEN NullBounds
        ELSE LET minLon == SetMin({p[1] : p \in pts})
                 maxLon == SetMax({p[1] : p \in pts})
                 minLat == SetMin({p[2] : p \in pts})
                 maxLat == SetMax({p[2] : p \in pts})
                 width  == maxLon - minLon
                 height == maxLat - minLat
             IN  [present |-> TRUE,
                  minLon |-> RInt(minLon), maxLon |-> RInt(maxLon),
                  minLat |-> RInt(minLat), maxLat |-> RInt(maxLat),
                  width |-> RInt(width), height |-> RInt(height),
                  centerX |-> RAdd(RInt(minLon), Rat(width, 2)),
                  centerY |-> RAdd(RInt(minLat), Rat(height, 2))]

Lerp(a, b, p) == RAdd(a, RMul(RSub(b, a), p))

interpolateBounds(b1, b2, p) ==
    IF ~b1.present \/ ~b2.present
    THEN (IF b2.present THEN b2 ELSE b1)
    ELSE [present |-> TRUE,
          minLon |-> Lerp(b1.minLon, b2.minLon, p),
          maxLon |-> Lerp(b1.maxLon, b2.maxLon, p),
          minLat |-> Lerp(b1.minLat, b2.minLat, p),
          maxLat |-> Lerp(b1.maxLat, b2.maxLat, p),
          width |-> Lerp(b1.width, b2.width, p),
          height |-> Lerp(b1.height, b2.height, p),
          centerX |-> Lerp(b1.centerX, b2.centerX, p),
          centerY |-> Lerp(b1.centerY, b2.centerY, p)]


\* the padded box, the scale and the offsets ringToPath and projectPoint both
\* compute from bounds and the canvas size (their first five lines)
Pad == Rat(2, 100)

ringToPathFrame(bounds, w, h) ==
    LET px     == RMul(bounds.width, Pad)
        py     == RMul(bounds.height, Pad)
        minLon == RSub(bounds.minLon, px)
        maxLon == RAdd(bounds.maxLon, px)
        minLat == RSub(bounds.minLat, py)
        maxLat == RAdd(bounds.maxLat, py)
        effW   == RSub(maxLon, minLon)
        effH   == RSub(maxLat, minLat)
        scale  == RMin(RDiv(RInt(w), effW), RDiv(RInt(h), effH))
    IN  [minLon |-> minLon, minLat |-> minLat, effW |-> effW, effH |-> effH,
         scale |-> scale,
         ox |-> RDiv(RSub(RInt(w), RMul(effW, scale)), RInt(2)),
         oy |-> RDiv(RSub(RInt(h), RMul(effH, scale)), RInt(2))]

projectPointFrame(bounds, w, h) ==
    LET px     == RMul(bounds.width, Pad)
        py     == RMul(bounds.height, Pad)
        minLon == RSub(bounds.minLon, px)
        minLat == RSub(bounds.minLat, py)
        effW   == RSub(RAdd(bounds.maxLon, px), minLon)
        effH   == RSub(RAdd(bounds.maxLat, py), minLat)
        scale  == RMin(RDiv(RInt(w), effW), RDiv(RInt(h), effH))
    IN  [minLon |-> minLon, minLat |-> minLat, effW |-> effW, effH |-> effH,
         scale |-> scale,
         ox |-> RDiv(RSub(RInt(w), RMul(effW, scale)), RInt(2)),
         oy |-> RDiv(RSub(RInt(h), RMul(effH, scale)), RInt(2))]

\* the x and y both functions give a coordinate pair c = <<lon, lat>> (rationals)
ProjectX(fr, c) == RAdd(RMul(RSub(c[1], fr.minLon), fr.scale), fr.ox)
\* the y of a screen whose origin is at the bottom
ProjectYBottomUp(fr, c, h) == RAdd(RMul(RSub(c[2], fr.minLat), fr.scale), fr.oy)

ProjectY(fr, c, h) == RSub(RInt(h), RAdd(RMul(RSub(c[2], fr.minLat), fr.scale), fr.oy))

\* the path's points in order ("M x y L x y ... Z"); "" (no point) without bounds
ringToPath(ring, bounds, w, h) ==
    IF ~bounds.present THEN << >>
    ELSE LET fr == ringToPathFrame(bounds, w, h)
         IN  [i \in 1..Len(ring) |->
                [x |-> ProjectX(fr, ring[i]), y |-> ProjectY(fr, ring[i], h)]]

NoPoint == [present |-> FALSE, x |-> Zero, y |-> Zero]

projectPoint(c, bounds, w, h) ==
    IF ~bounds.present THEN NoPoint
    ELSE LET fr == projectPointFrame(bounds, w, h)
         IN  [present |-> TRUE, x |-> ProjectX(fr, c), y |-> ProjectY(fr, c, h)]

SVG_WIDTH == 800
SVG_HEIGHT == 600

-----------------------------------------------------------------------------
(* InteractiveMap: data.                                                   *)

HOVER_DELAY == 2000
DEBOUNCE_DELAY == 40
duration == 600

\* Date.now() when the component mounts; how long a behaviour is followed and
\* how many mouse-enter events it has; the time between two animation frames
Epoch == 1000
Horizon == 5400
MaxEnters == 2
FrameStep == 280

NoGeoJson == [present |-> FALSE, features |-> << >>]
GeoJsonOf(fs) == [present |-> TRUE, features |-> fs]

NoHover == [feature |-> NoFeature, type |-> "null"]
NoZoom == [feature |-> NoFeature, type |-> "null", progress |-> Zero]
NoTimer == [pending |-> FALSE, due |-> 0, feature |-> NoFeature, type |-> "null"]
NoFrame == [pending |-> FALSE, type |-> "null"]

\* the location props a chat message can carry (a DetectedLocation)
Locations ==
    { [type |-> "country",  name |-> "India", stateName |-> ""],
      [type |-> "state",    name |-> "S1",    stateName |-> ""],
      [type |-> "district", name |-> "P1",    stateName |-> "S1"],
      [type |-> "district", name |-> "P1",    stateName |-> ""] }

\* What a fetch of /api/geojson can come back with: a rejected promise or a
\* body that is not JSON (throws), a status that is not OK, or one of the
\* bodies the route sends with status 200 for that query.
Failures ==
    { [throws |-> TRUE,  ok |-> FALSE, geoJson |-> NoGeoJson, districtsGeoJson |-> NoGeoJson],
      [throws |-> FALSE, ok |-> FALSE, geoJson |-> NoGeoJson, districtsGeoJson |-> NoGeoJson] }

Body(g, d) == [throws |-> FALSE, ok |-> TRUE, geoJson |-> g, districtsGeoJson |-> d]

StateBodies ==
    { Body(GeoJsonOf(<<"O1">>), GeoJsonOf(<<"D1", "D2">>)),
      Body(GeoJsonOf(<<"O1">>), NoGeoJson) }

Responses(loc) ==
    Failures \cup
    ( IF loc.type = "country" /\ loc.name = "India"
        THEN { Body(GeoJsonOf(<<"S1", "S2">>), NoGeoJson) }
      ELSE IF loc.type = "district" /\ loc.name # ""
        THEN { Body(GeoJsonOf(<<"P1">>), NoGeoJson) }
      ELSE StateBodies )

FallbackResponses == Failures \cup StateBodies

-----------------------------------------------------------------------------
(* InteractiveMap: what a render shows (the component's body after the     *)
(* hooks, and MapContent).                                                 *)

\* neither the "Loading map..." card nor the error card
MapShown ==
    ~loading /\ ~(error # "" \/ (~geoJson.present /\ ~allStatesGeoJson.present))

isIndiaView ==
    allStatesGeoJson.present /\ viewLevel = "country" /\ zoomedFeature.feature = NoFeature

baseFeatures ==
    IF isIndiaView THEN allStatesGeoJson.features
    ELSE IF geoJson.present THEN geoJson.features
    ELSE << >>

\* calculateBounds of every feature list a render passes it, computed once
FeatureLists ==
    { << >>, <<"S1", "S2">>, <<"O1">>, <<"P1">>, <<"S1">>, <<"S2">>, <<"D1">>, <<"D2">> }

BoundsTable == [fs \in FeatureLists |-> calculateBounds(fs)]

baseBounds == BoundsTable[baseFeatures]

targetBounds ==
    IF zoomedFeature.feature # NoFeature
    THEN BoundsTable[<<zoomedFeature.feature>>]
    ELSE baseBounds

bounds ==
    IF zoomedFeature.feature # NoFeature /\ RLt(Zero, zoomedFeature.progress)
    THEN interpolateBounds(baseBounds, targetBounds, zoomedFeature.progress)
    ELSE baseBounds

\* {bounds && <MapContent .../>}
MapContentShown == MapShown /\ bounds.present

\* the <path> elements of one feature: one per ring
RingsOf(f) ==
    LET g == GeometryOf(f)
    IN  UNION {{<<p, r>> : r \in 1..Len(g.polygons[p])} : p \in 1..Len(g.polygons)}

PathsOf(layer, fs) ==
    UNION {{[layer |-> layer, feature |-> f, ring |-> pr] : pr \in RingsOf(f)}
           : f \in Range(fs)}

\* the paths in the SVG, by layer: all states ("s"), the state outline
\* ("st"), the districts ("d"), the zoomed feature ("z")
DrawnPaths ==
    IF ~MapContentShown THEN {}
    ELSE (IF isIndiaView /\ allStatesGeoJson.present
             THEN PathsOf("s", allStatesGeoJson.features) ELSE {})
         \cup
         (IF ~isIndiaView /\ viewLevel = "state" /\ geoJson.present
             THEN PathsOf("st", geoJson.features) ELSE {})
         \cup
         (IF ~isIndiaView /\ viewLevel = "state" /\ districtsGeoJson.present
             THEN PathsOf("d", districtsGeoJson.features) ELSE {})
         \cup
         (IF zoomedFeature.feature # NoFeature
             THEN PathsOf("z", <<zoomedFeature.feature>>) ELSE {})

\* the features whose paths carry onMouseEnter / onMouseLeave, with the type
\* the handler is called with
Hoverable ==
    {<<p.feature, "state">> : p \in {q \in DrawnPaths : q.layer = "s"}} \cup
    {<<p.feature, "district">> : p \in {q \in DrawnPaths : q.layer = "d"}}

\* the Reset button takes clicks (MapHeader: showReset)
showReset == zoomedFeature.feature # NoFeature \/ hoveredFeature.feature # NoFeature

-----------------------------------------------------------------------------
(* InteractiveMap: the hooks.                                              *)

\* the zoom animation's easing of rawProgress = min(elapsed / duration, 1)
rawProgress(elapsed) == RMin(Rat(elapsed, duration), One)

Cube(x) == RMul(x, RMul(x, x))

eased(raw) ==
    IF RLt(raw, Rat(1, 2))
    THEN RMul(RInt(4), Cube(raw))
    ELSE RSub(One, RDiv(Cube(RAdd(RMul(RInt(-2), raw), RInt(2))), RInt(2)))

\* useEffect(..., [zoomedFeature.feature, zoomedFeature.type]) after a commit
\* that made zoomedFeature z: when a dependency changed, the previous run's
\* cleanup cancels the pending frame and the effect runs again.  Gives the
\* new animationFrameRef and zoomStartTimeRef.
ZoomEffect(z) ==
    IF z.feature = zoomedFeature.feature /\ z.type = zoomedFeature.type
    THEN [frame |-> animationFrameRef, start |-> zoomStartTimeRef]
    ELSE IF z.feature # NoFeature /\ RLt(z.progress, One)
         THEN [frame |-> [pending |-> TRUE, type |-> z.type],
               start |-> IF zoomStartTimeRef = 0 THEN now ELSE zoomStartTimeRef]
         ELSE [frame |-> NoFrame,
               start |-> IF z.feature = NoFeature THEN 0 ELSE zoomStartTimeRef]

pointerVars == <<mouseOver, lastEnter, mouseAway, enters>>
dataVars == <<location, geoJson, districtsGeoJson, allStatesGeoJson>>
hoverVars == <<hoveredFeature, hoverProgress, hoverTimeoutRef, debounceTimeoutRef,
               currentHoveredRef, hoverStartTimeRef, hoverAnimationRef>>
zoomVars == <<zoomedFeature, viewLevel, animationFrameRef, zoomStartTimeRef>>

\* the state after the first render and its effects: loadGeoJson has set the
\* view level for the location and awaits its fetch
MapInit ==
    /\ location \in Locations
    /\ loadPc = "fetch"
    /\ geoJson = NoGeoJson
    /\ districtsGeoJson = NoGeoJson
    /\ allStatesGeoJson = NoGeoJson
    /\ loading = TRUE
    /\ error = ""
    /\ zoomedFeature = NoZoom
    /\ hoveredFeature = NoHover
    /\ viewLevel = (IF location.type = "country" /\ location.name = "India" THEN "country"
                    ELSE IF location.type = "district" /\ location.name # "" THEN "district"
                    ELSE "state")
    /\ hoverProgress = Zero
    /\ hoverTimeoutRef = NoTimer
    /\ debounceTimeoutRef = NoTimer
    /\ animationFrameRef = NoFrame
    /\ zoomStartTimeRef = 0
    /\ currentHoveredRef = NoHover
    /\ hoverStartTimeRef = 0
    /\ hoverAnimationRef = FALSE
    /\ now = Epoch
    /\ mouseOver = NoFeature
    /\ lastEnter = [feature |-> NoFeature, time |-> 0]
    /\ mouseAway = FALSE
    /\ enters = 0

\* loadGeoJson from `await fetch(apiUrl)` to its end, or to the fallback fetch
loadGeoJson(r) ==
    /\ loadPc = "fetch"
    /\ IF r.throws
       THEN /\ error' = "fetch failed"
            /\ loading' = FALSE
            /\ loadPc' = "done"
            /\ UNCHANGED <<geoJson, districtsGeoJson, allStatesGeoJson>>
       ELSE IF ~r.ok
       THEN IF location.type = "district" /\ location.stateName # ""
            THEN /\ loadPc' = "fallback"
                 /\ UNCHANGED <<error, loading, geoJson, districtsGeoJson, allStatesGeoJson>>
            ELSE /\ error' = "Failed to load map data"
                 /\ loading' = FALSE
                 /\ loadPc' = "done"
                 /\ UNCHANGED <<geoJson, districtsGeoJson, allStatesGeoJson>>
       ELSE /\ IF location.type = "country"
               THEN /\ allStatesGeoJson' = r.geoJson
                    /\ geoJson' = NoGeoJson
                    /\ districtsGeoJson' = NoGeoJson
               ELSE /\ geoJson' = r.geoJson
                    /\ districtsGeoJson' = r.districtsGeoJson
                    /\ UNCHANGED allStatesGeoJson
            /\ loading' = FALSE
            /\ loadPc' = "done"
            /\ UNCHANGED error
    /\ UNCHANGED <<location, now>>
    /\ UNCHANGED hoverVars
    /\ UNCHANGED zoomVars
    /\ UNCHANGED pointerVars

\* loadGeoJson from `await fetch(fallbackUrl)` to its end
loadGeoJsonFallback(r) ==
    /\ loadPc = "fallback"
    /\ IF r.throws
       THEN /\ error' = "fetch failed"
            /\ UNCHANGED <<geoJson, districtsGeoJson>>
       ELSE IF r.ok /\ r.geoJson.present
       THEN /\ geoJson' = r.geoJson
            /\ districtsGeoJson' = r.districtsGeoJson
            /\ UNCHANGED error
       ELSE /\ error' = "Failed to load map data"
            /\ UNCHANGED <<geoJson, districtsGeoJson>>
    /\ loading' = FALSE
    /\ loadPc' = "done"
    /\ UNCHANGED <<location, allStatesGeoJson, now>>
    /\ UNCHANGED hoverVars
    /\ UNCHANGED zoomVars
    /\ UNCHANGED pointerVars

\* handleFeatureHoverStart without its clearTimeout(hoverTimeoutRef.current)
handleFeatureHoverStartKeepsDwell(feature, type) ==
    /\ <<feature, type>> \in Hoverable
    /\ enters < MaxEnters
    /\ enters' = enters + 1
    /\ debounceTimeoutRef' = [pending |-> TRUE, due |-> now + DEBOUNCE_DELAY,
                              feature |-> feature, type |-> type]
    /\ hoverAnimationRef' = FALSE
    /\ mouseOver' = feature
    /\ lastEnter' = [feature |-> feature, time |-> now]
    /\ mouseAway' = FALSE
    /\ UNCHANGED <<hoveredFeature, hoverProgress, currentHoveredRef, hoverStartTimeRef,
                   hoverTimeoutRef>>
    /\ UNCHANGED <<loadPc, loading, error, now>>
    /\ UNCHANGED dataVars
    /\ UNCHANGED zoomVars

\* onMouseEnter of a state or district path
handleFeatureHoverStart(feature, type) ==
    /\ <<feature, type>> \in Hoverable
    /\ enters < MaxEnters
    /\ enters' = enters + 1
    /\ debounceTimeoutRef' = [pending |-> TRUE, due |-> now + DEBOUNCE_DELAY,
                              feature |-> feature, type |-> type]
    /\ hoverTimeoutRef' = NoTimer
    /\ hoverAnimationRef' = FALSE
    /\ mouseOver' = feature
    /\ lastEnter' = [feature |-> feature, time |-> now]
    /\ mouseAway' = FALSE
    /\ UNCHANGED <<hoveredFeature, hoverProgress, currentHoveredRef, hoverStartTimeRef>>
    /\ UNCHANGED <<loadPc, loading, error, now>>
    /\ UNCHANGED dataVars
    /\ UNCHANGED zoomVars

\* the debounce timer's callback
debounceTimeout ==
    /\ debounceTimeoutRef.pending
    /\ now >= debounceTimeoutRef.due
    /\ currentHoveredRef' = [feature |-> debounceTimeoutRef.feature,
                             type |-> debounceTimeoutRef.type]
    /\ hoverStartTimeRef' = now
    /\ hoveredFeature' = [feature |-> debounceTimeoutRef.feature,
                          type |-> debounceTimeoutRef.type]
    /\ hoverProgress' = Zero
    /\ hoverAnimationRef' = TRUE
    /\ hoverTimeoutRef' = [pending |-> TRUE, due |-> now + HOVER_DELAY,
                           feature |-> debounceTimeoutRef.feature,
                           type |-> debounceTimeoutRef.type]
    /\ debounceTimeoutRef' = NoTimer
    /\ UNCHANGED <<loadPc, loading, error, now>>
    /\ UNCHANGED dataVars
    /\ UNCHANGED zoomVars
    /\ UNCHANGED pointerVars

\* one frame of the hover progress bar
animateHover ==
    /\ hoverAnimationRef
    /\ LET progress == RMin(Rat(now - hoverStartTimeRef, HOVER_DELAY), One)
       IN  /\ hoverProgress' = progress
           /\ hoverAnimationRef' = RLt(progress, One)
    /\ UNCHANGED <<hoveredFeature, hoverTimeoutRef, debounceTimeoutRef,
                   currentHoveredRef, hoverStartTimeRef>>
    /\ UNCHANGED <<loadPc, loading, error, now>>
    /\ UNCHANGED dataVars
    /\ UNCHANGED zoomVars
    /\ UNCHANGED pointerVars

\* the dwell timer's callback, and the zoom effect of the commit it causes
hoverTimeout ==
    /\ hoverTimeoutRef.pending
    /\ now >= hoverTimeoutRef.due
    /\ IF currentHoveredRef.feature = hoverTimeoutRef.feature
       THEN LET z == [feature |-> hoverTimeoutRef.feature,
                      type |-> hoverTimeoutRef.type, progress |-> Zero]
            IN  /\ zoomedFeature' = z
                /\ animationFrameRef' = ZoomEffect(z).frame
                /\ zoomStartTimeRef' = ZoomEffect(z).start
                /\ hoveredFeature' = NoHover
                /\ hoverProgress' = Zero
                /\ currentHoveredRef' = NoHover
       ELSE UNCHANGED <<zoomedFeature, animationFrameRef, zoomStartTimeRef,
                        hoveredFeature, hoverProgress, currentHoveredRef>>
    /\ hoverTimeoutRef' = NoTimer
    /\ UNCHANGED <<debounceTimeoutRef, hoverStartTimeRef, hoverAnimationRef, viewLevel>>
    /\ UNCHANGED <<loadPc, loading, error, now>>
    /\ UNCHANGED dataVars
    /\ UNCHANGED pointerVars

\* handleFeatureHoverEnd without its clearTimeout(debounceTimeoutRef.current)
handleFeatureHoverEndKeepsDebounce ==
    /\ mouseOver # NoFeature
    /\ mouseOver \in {h[1] : h \in Hoverable}
    /\ hoverTimeoutRef' = NoTimer
    /\ hoverAnimationRef' = FALSE
    /\ currentHoveredRef' = NoHover
    /\ hoveredFeature' = NoHover
    /\ hoverProgress' = Zero
    /\ mouseOver' = NoFeature
    /\ mouseAway' = TRUE
    /\ UNCHANGED <<hoverStartTimeRef, lastEnter, enters, debounceTimeoutRef>>
    /\ UNCHANGED <<loadPc, loading, error, now>>
    /\ UNCHANGED dataVars
    /\ UNCHANGED zoomVars

\* onMouseLeave of the path the pointer is on
handleFeatureHoverEnd ==
    /\ mouseOver # NoFeature
    /\ mouseOver \in {h[1] : h \in Hoverable}
    /\ debounceTimeoutRef' = NoTimer
    /\ hoverTimeoutRef' = NoTimer
    /\ hoverAnimationRef' = FALSE
    /\ currentHoveredRef' = NoHover
    /\ hoveredFeature' = NoHover
    /\ hoverProgress' = Zero
    /\ mouseOver' = NoFeature
    /\ mouseAway' = TRUE
    /\ UNCHANGED <<hoverStartTimeRef, lastEnter, enters>>
    /\ UNCHANGED <<loadPc, loading, error, now>>
    /\ UNCHANGED dataVars
    /\ UNCHANGED zoomVars

\* a click on Reset, and the zoom effect of the commit it causes
handleReset ==
    /\ MapShown
    /\ showReset
    /\ hoverTimeoutRef' = NoTimer
    /\ hoverAnimationRef' = FALSE
    /\ zoomedFeature' = NoZoom
    /\ hoveredFeature' = NoHover
    /\ hoverProgress' = Zero
    /\ zoomStartTimeRef' = 0
    /\ animationFrameRef' = ZoomEffect(NoZoom).frame
    /\ viewLevel' = (IF location.type = "country" THEN "country" ELSE "state")
    /\ UNCHANGED <<debounceTimeoutRef, currentHoveredRef, hoverStartTimeRef>>
    /\ UNCHANGED <<loadPc, loading, error, now>>
    /\ UNCHANGED dataVars
    /\ UNCHANGED pointerVars

\* one frame of the zoom animation
animate ==
    /\ animationFrameRef.pending
    /\ LET elapsed == now - zoomStartTimeRef
           raw     == rawProgress(elapsed)
       IN  /\ zoomedFeature' = [zoomedFeature EXCEPT !.progress = eased(raw)]
           /\ IF RLt(raw, One)
              THEN UNCHANGED <<animationFrameRef, viewLevel>>
              ELSE /\ animationFrameRef' = NoFrame
                   /\ viewLevel' = (IF animationFrameRef.type = "state" THEN "state"
                                    ELSE IF animationFrameRef.type = "district" THEN "district"
                                    ELSE viewLevel)
    /\ UNCHANGED zoomStartTimeRef
    /\ UNCHANGED <<loadPc, loading, error, now>>
    /\ UNCHANGED dataVars
    /\ UNCHANGED hoverVars
    /\ UNCHANGED pointerVars

\* the time that may pass before the next step: up to the next frame, or up
\* to the next timer becoming due
TimeSteps ==
    {FrameStep}
    \cup (IF debounceTimeoutRef.pending THEN {debounceTimeoutRef.due - now} ELSE {})
    \cup (IF hoverTimeoutRef.pending THEN {hoverTimeoutRef.due - now} ELSE {})

\* time passes while a timer or a frame is pending; timers fire when due
Tick(d) ==
    /\ d > 0
    /\ debounceTimeoutRef.pending \/ hoverTimeoutRef.pending
         \/ animationFrameRef.pending \/ hoverAnimationRef
    /\ now + d <= Epoch + Horizon
    /\ debounceTimeoutRef.pending => now + d <= debounceTimeoutRef.due
    /\ hoverTimeoutRef.pending => now + d <= hoverTimeoutRef.due
    /\ now' = now + d
    /\ UNCHANGED <<loadPc, loading, error>>
    /\ UNCHANGED dataVars
    /\ UNCHANGED hoverVars
    /\ UNCHANGED zoomVars
    /\ UNCHANGED pointerVars

-----------------------------------------------------------------------------
(* Properties of the map component.                                        *)

\* a step that starts a zoom: zoomedFeature becomes a feature it was not, or
\* the same feature again from progress 0
ZoomTriggered ==
    /\ zoomedFeature'.feature # NoFeature
    /\ \/ zoomedFeature'.feature # zoomedFeature.feature
       \/ zoomedFeature'.type # zoomedFeature.type
       \/ RLt(zoomedFeature'.progress, zoomedFeature.progress)

\* the step is the dwell timer of the last mouse-enter firing: that enter
\* was on the zoomed feature, no mouse-leave followed it, the debounce fired
\* 40 ms after it and marked the feature hovered, and 2000 ms passed since
DwellFiredUndisturbed ==
    LET F == zoomedFeature'.feature
    IN  /\ hoverTimeoutRef.pending
        /\ hoverTimeoutRef.feature = F
        /\ hoverTimeoutRef' = NoTimer
        /\ now >= hoverTimeoutRef.due
        /\ hoveredFeature.feature = F
        /\ currentHoveredRef.feature = F
        /\ lastEnter.feature = F
        /\ ~mouseAway
        /\ hoverStartTimeRef - lastEnter.time >= 40
        /\ now - hoverStartTimeRef >= 2000
        /\ now - lastEnter.time >= 2040
        /\ zoomedFeature'.progress = Zero

\* the pending timers are those of the last mouse-enter: a debounce due 40 ms
\* after it, or a dwell timer due 2000 ms after the debounce fired
TimersOfLastEnter ==
    /\ debounceTimeoutRef.pending =>
          /\ debounceTimeoutRef.feature = lastEnter.feature
          /\ debounceTimeoutRef.due = lastEnter.time + 40
          /\ ~hoverTimeoutRef.pending
    /\ hoverTimeoutRef.pending =>
          /\ hoverTimeoutRef.feature = lastEnter.feature
          /\ hoverTimeoutRef.due = hoverStartTimeRef + 2000
          /\ hoverStartTimeRef >= lastEnter.time + 40
          /\ hoveredFeature.feature = lastEnter.feature

\* C1: zoomedFeature is set to a feature F only by the dwell timer: a
\* mouse-enter on F starts a 40 ms debounce, the debounce firing marks F as
\* hovered and starts a 2000 ms dwell timer, and the zoom on F is triggered only
\* when that timer fires with F still hovered, no mouse-leave and no other
\* mouse-enter having occurred in the 2040 ms since the mouse-enter on F.
C1_ZoomOnlyByUndisturbedDwell ==
    []TimersOfLastEnter /\ [][ZoomTriggered => DwellFiredUndisturbed]_vars

\* a zoom just triggered by the second mouse-enter of the behaviour, 2040 ms
\* after it
C1_Witness ==
    /\ zoomedFeature.feature # NoFeature
    /\ zoomedFeature.feature = lastEnter.feature
    /\ zoomedFeature.progress = Zero
    /\ now = lastEnter.time + 2040
    /\ enters = 2

\* the bounding box of the view shown before a zoom: all states for a country
\* location still at country level, the state outline otherwise
ViewBaseBounds ==
    IF location.type = "country" /\ viewLevel = "country"
    THEN calculateBounds(allStatesGeoJson.features)
    ELSE calculateBounds(geoJson.features)

ZoomTargetBounds == calculateBounds(<<zoomedFeature.feature>>)

Between(a, b, p) == RAdd(a, RMul(RSub(b, a), p))

\* C2: during a zoom transition (a zoomed feature with progress < 1) the
\* bounds handed to the renderer are never null and never already the
\* target's, and for progress p in (0,1) each component is
\* base + (target - base) * p, base being the bounding box of the view shown
\* before the zoom and target the zoomed feature's.
C2_BoundsInterpolated ==
    (MapShown /\ zoomedFeature.feature # NoFeature /\ RLt(zoomedFeature.progress, One)) =>
        /\ bounds.present
        /\ ViewBaseBounds # ZoomTargetBounds => bounds # ZoomTargetBounds
        /\ RLt(Zero, zoomedFeature.progress) =>
              /\ ViewBaseBounds.present
              /\ \A c \in {"minLon", "maxLon", "minLat", "maxLat"} :
                    bounds[c] = Between(ViewBaseBounds[c], ZoomTargetBounds[c],
                                        zoomedFeature.progress)

\* C3: from a loaded country location the map zooms into a state and then,
\* without reloading, into a district of it: once the state zoom has
\* completed (viewLevel 'state'), a district feature is hoverable.
C3_DistrictHoverableAfterStateZoom ==
    (location.type = "country" /\ viewLevel = "state"
        /\ zoomedFeature.type = "state" /\ zoomedFeature.progress = One) =>
        \E h \in Hoverable : h[2] = "district"

\* what the code does instead: a map loaded for a country location never
\* reaches the district level
C3_CountryMapNeverReachesDistrict ==
    location.type = "country" =>
        /\ viewLevel # "district"
        /\ zoomedFeature.type # "district"
        /\ ~districtsGeoJson.present

\* C5: for a district location whose load succeeded (directly or through the
\* fallback to the state's outline), once loading has finished the map draws
\* at least one outline path.
C5_DistrictMapDrawn ==
    (location.type = "district" /\ loadPc = "done" /\ ~loading /\ error = ""
        /\ geoJson.present) =>
        DrawnPaths # {}

\* C10: once the mouse has left a feature and as long as no mouse-enter
\* follows, the hover's debounce and dwell timers are cancelled,
\* hoveredFeature is null and hoverProgress 0, and no timer changes
\* zoomedFeature: it keeps its feature and type unless Reset clears it.
C10_LeaveCancelsHover ==
    /\ [](mouseAway =>
            /\ ~debounceTimeoutRef.pending
            /\ ~hoverTimeoutRef.pending
            /\ ~hoverAnimationRef
            /\ hoveredFeature = NoHover
            /\ hoverProgress = Zero)
    /\ [][(mouseAway /\ mouseAway') =>
            \/ /\ zoomedFeature'.feature = zoomedFeature.feature
               /\ zoomedFeature'.type = zoomedFeature.type
            \/ zoomedFeature' = NoZoom]_vars

\* the mouse left a feature while its dwell timer was running (the debounce
\* of the mouse-enter had fired), and the dwell time has passed since
C10_Witness ==
    /\ mouseAway
    /\ lastEnter.feature # NoFeature
    /\ hoverStartTimeRef = lastEnter.time + 40
    /\ now >= lastEnter.time + 2040

-----------------------------------------------------------------------------
(* Strings.  A string is the sequence of its characters, so that case,     *)
(* whitespace and substrings are what they are in JavaScript.              *)

UpperCase ==
    <<"A", "B", "C", "D", "E", "F", "G", "H", "I", "J", "K", "L", "M",
      "N", "O", "P", "Q", "R", "S", "T", "U", "V", "W", "X", "Y", "Z">>
LowerCase ==
    <<"a", "b", "c", "d", "e", "f", "g", "h", "i", "j", "k", "l", "m",
      "n", "o", "p", "q", "r", "s", "t", "u", "v", "w", "x", "y", "z">>
Whitespace == {" ", "\t", "\n"}

toLowerCaseChar(c) ==
    IF \E i \in 1..26 : UpperCase[i] = c
    THEN LowerCase[CHOOSE i \in 1..26 : UpperCase[i] = c]
    ELSE c

toLowerCase(str) == [i \in 1..Len(str) |-> toLowerCaseChar(str[i])]

RECURSIVE trimStart(_)
trimStart(str) ==
    IF str # << >> /\ Head(str) \in Whitespace THEN trimStart(Tail(str)) ELSE str

RECURSIVE trimEnd(_)
trimEnd(str) ==
    IF str # << >> /\ str[Len(str)] \in Whitespace
    THEN trimEnd(SubSeq(str, 1, Len(str) - 1))
    ELSE str

trim(str) == trimEnd(trimStart(str))

\* str.replace(/\s+/g, " ")
RECURSIVE collapseWhitespace(_)
collapseWhitespace(str) ==
    IF str = << >> THEN << >>
    ELSE IF Head(str) \in Whitespace
         THEN <<" ">> \o collapseWhitespace(trimStart(str))
         ELSE <<Head(str)>> \o collapseWhitespace(Tail(str))

normalizeLocationName(name) == collapseWhitespace(trim(toLowerCase(name)))

\* haystack.includes(needle)
includes(haystack, needle) ==
    \E i \in 0..(Len(haystack) - Len(needle)) :
        SubSeq(haystack, i + 1, i + Len(needle)) = needle

-----------------------------------------------------------------------------
(* GET /api/geojson.                                                       *)

\* A feature of a GeoJSON file: the name properties the route reads ("" when
\* absent) and the geometry, polygons of rings of <<lon, lat>> points.
Feature(key, name, type, polygons) ==
    [properties |-> [k \in {"NAME_1", "dtname", "NAME_2", "DISTRICT", "District"} |->
                        IF k = key THEN name ELSE << >>],
     geometry |-> [type |-> type, polygons |-> polygons]]

NoCentroid == [present |-> FALSE, x |-> Zero, y |-> Zero]

RECURSIVE SumOf(_, _)
SumOf(coords, k) == IF coords = << >> THEN 0 ELSE Head(coords)[k] + SumOf(Tail(coords), k)

RECURSIVE OuterRings(_)
OuterRings(polygons) ==
    IF polygons = << >> THEN << >>
    ELSE (IF Head(polygons) # << >> THEN Head(polygons)[1] ELSE << >>)
         \o OuterRings(Tail(polygons))

\* the average of the vertices of the outer ring (of every polygon's outer
\* ring for a MultiPolygon)
calculateFeatureCentroid(feature) ==
    LET g == feature.geometry
        allCoords ==
            IF g.type = "Polygon"
            THEN (IF g.polygons # << >> /\ g.polygons[1] # << >>
                  THEN g.polygons[1][1] ELSE << >>)
            ELSE IF g.type = "MultiPolygon" THEN OuterRings(g.polygons)
            ELSE << >>
    IN  IF allCoords = << >> THEN NoCentroid
        ELSE [present |-> TRUE,
              x |-> Rat(SumOf(allCoords, 1), Len(allCoords)),
              y |-> Rat(SumOf(allCoords, 2), Len(allCoords))]

\* isPointInPolygon with the crossing measured from xj
isPointInPolygonFromXj(point, polygon) ==
    LET n == Len(polygon)
        intersect(i) ==
            LET j  == IF i = 1 THEN n ELSE i - 1
                xi == polygon[i][1]
                yi == polygon[i][2]
                xj == polygon[j][1]
                yj == polygon[j][2]
            IN  /\ RLt(point.y, RInt(yi)) # RLt(point.y, RInt(yj))
                /\ RLt(point.x,
                       RAdd(RDiv(RMul(RInt(xj - xi), RSub(point.y, RInt(yi))),
                                 RInt(yj - yi)),
                            RInt(xj)))
    IN  Cardinality({i \in 1..n : intersect(i)}) % 2 = 1

\* ray casting: `inside` is toggled once per edge (polygon[j], polygon[i]) the
\* ray crosses
isPointInPolygon(point, polygon) ==
    LET n == Len(polygon)
        intersect(i) ==
            LET j  == IF i = 1 THEN n ELSE i - 1
                xi == polygon[i][1]
                yi == polygon[i][2]
                xj == polygon[j][1]
                yj == polygon[j][2]
            IN  /\ RLt(point.y, RInt(yi)) # RLt(point.y, RInt(yj))
                /\ RLt(point.x,
                       RAdd(RDiv(RMul(RInt(xj - xi), RSub(point.y, RInt(yi))),
                                 RInt(yj - yi)),
                            RInt(xi)))
    IN  Cardinality({i \in 1..n : intersect(i)}) % 2 = 1

isPointInFeature(point, feature) ==
    LET g == feature.geometry
    IN  IF g.type = "Polygon"
        THEN g.polygons # << >> /\ g.polygons[1] # << >>
                /\ isPointInPolygon(point, g.polygons[1][1])
        ELSE IF g.type = "MultiPolygon"
        THEN \E p \in 1..Len(g.polygons) :
                g.polygons[p] # << >> /\ isPointInPolygon(point, g.polygons[p][1])
        ELSE FALSE

\* a || b for strings
OrElse(a, b) == IF a # << >> THEN a ELSE b

\* fs.existsSync / fs.readFileSync + JSON.parse of public/geojson/<dir>/<name>.geojson
localFileExists(env, dir, name) ==
    \E f \in env.files : f.dir = dir /\ f.name = name
localFile(env, dir, name) ==
    GeoJsonOf((CHOOSE f \in env.files : f.dir = dir /\ f.name = name).features)

Json(status, g, d, err) ==
    [status |-> status, geoJson |-> g, districtsGeoJson |-> d, error |-> err]

\* the features of output.geojson whose name normalises to the district's
districtMatches(env, districtName) ==
    LET normalizedDistrict == normalizeLocationName(districtName)
        keep(feature) ==
            normalizeLocationName(
                OrElse(feature.properties.dtname,
                OrElse(feature.properties.NAME_2,
                OrElse(feature.properties.DISTRICT,
                       feature.properties.District)))) = normalizedDistrict
    IN  IF env.output.exists THEN SelectSeq(env.output.features, keep) ELSE << >>

\* the features of the remote state file whose NAME_1 normalises to the state's
stateMatches(env, stateName) ==
    LET normalizedState == normalizeLocationName(stateName)
        keep(feature) == normalizeLocationName(feature.properties.NAME_1) = normalizedState
    IN  IF env.remote.ok THEN SelectSeq(env.remote.features, keep) ELSE << >>

\* the features of output.geojson whose centroid is in a feature of the state
districtsOfState(env, stateFeatures) ==
    LET keep(districtFeature) ==
            LET districtCentroid == calculateFeatureCentroid(districtFeature)
            IN  /\ districtCentroid.present
                /\ \E s \in 1..Len(stateFeatures) :
                      isPointInFeature(districtCentroid, stateFeatures[s])
    IN  IF env.output.exists /\ env.output.features # << >>
        THEN SelectSeq(env.output.features, keep) ELSE << >>

\* the local file of the request, when there is one
localLookup(env, req) ==
    IF req.district # << >>
    THEN (IF localFileExists(env, "districts", req.district)
          THEN localFile(env, "districts", req.district) ELSE NoGeoJson)
    ELSE IF req.state # << >> /\ localFileExists(env, "states", req.state)
    THEN localFile(env, "states", req.state)
    ELSE NoGeoJson

\* the handler; req.state and req.district are "" for an absent parameter
GET(env, req) ==
    IF req.allstates
    THEN (IF env.remote.ok
          THEN Json(200, GeoJsonOf(env.remote.features), NoGeoJson, "")
          ELSE Json(500, NoGeoJson, NoGeoJson, "Failed to load India map data"))
    ELSE IF req.state = << >> /\ req.district = << >>
    THEN Json(400, NoGeoJson, NoGeoJson, "State or district name is required")
    ELSE
      LET local == localLookup(env, req)
          fromOutput ==
              IF ~local.present /\ req.district # << >>
                    /\ districtMatches(env, req.district) # << >>
              THEN GeoJsonOf(districtMatches(env, req.district)) ELSE local
          geoJsonData ==
              IF ~fromOutput.present /\ req.state # << >>
                    /\ stateMatches(env, req.state) # << >>
              THEN GeoJsonOf(stateMatches(env, req.state)) ELSE fromOutput
          districtsGeoJsonData ==
              IF req.state # << >> /\ req.district = << >> /\ geoJsonData.present
                    /\ districtsOfState(env, geoJsonData.features) # << >>
              THEN GeoJsonOf(districtsOfState(env, geoJsonData.features))
              ELSE NoGeoJson
      IN  IF ~geoJsonData.present
          THEN Json(404, NoGeoJson, NoGeoJson, "Location outline not found")
          ELSE Json(200, geoJsonData, districtsGeoJsonData, "")

-----------------------------------------------------------------------------
(* GET /api/geojson: the files and the requests it is checked on.         *)

Str_Goa == <<"G", "o", "a">>
Str_goa == <<"g", "o", "a">>
Str_GOA == <<"G", "O", "A">>
Str_Goa_lead == <<" ", "G", "o", "a">>
Str_TamilNadu == <<"T", "a", "m", "i", "l", " ", "N", "a", "d", "u">>
Str_tamil__nadu == <<"t", "a", "m", "i", "l", " ", " ", "n", "a", "d", "u">>
Str_TAMIL_NADU_trail == <<"T", "A", "M", "I", "L", " ", "N", "A", "D", "U", " ">>
Str_Pune == <<"P", "u", "n", "e">>
Str_pune == <<"p", "u", "n", "e">>
Str_PUNE_trail == <<"P", "U", "N", "E", " ">>
Str_NorthGoa == <<"N", "o", "r", "t", "h", " ", "G", "o", "a">>
Str_Enclave == <<"E", "n", "c", "l", "a", "v", "e">>
Str_Chennai == <<"C", "h", "e", "n", "n", "a", "i">>

Ring(points) == points \o <<Head(points)>>

\* the remote india_state.geojson: Goa, a square with a hole (an enclave that
\* is not part of it), and Tamil Nadu, L-shaped
RemoteStates ==
    << Feature("NAME_1", Str_Goa, "Polygon",
               << <<Square(0, 0, 6, 6), Square(2, 2, 4, 4)>> >>),
       Feature("NAME_1", Str_TamilNadu, "Polygon",
               << <<Ring(<< <<8, 0>>, <<14, 0>>, <<14, 2>>, <<10, 2>>, <<10, 6>>, <<8, 6>> >>)>> >>) >>

\* output.geojson: North Goa inside Goa, Enclave in Goa's hole, Pune in the
\* notch of Tamil Nadu's L, Chennai covering Tamil Nadu
OutputDistricts ==
    << Feature("dtname", Str_NorthGoa, "Polygon", << <<Square(0, 0, 2, 6)>> >>),
       Feature("dtname", Str_Enclave, "Polygon", << <<Square(2, 2, 4, 4)>> >>),
       Feature("NAME_2", Str_Pune, "Polygon", << <<Square(10, 2, 14, 6)>> >>),
       Feature("DISTRICT", Str_Chennai, "Polygon",
               << <<Ring(<< <<8, 0>>, <<14, 0>>, <<14, 2>>, <<10, 2>>, <<10, 6>>, <<8, 6>> >>)>> >>) >>

\* public/geojson/states/Goa.geojson and public/geojson/districts/Pune.geojson
LocalFiles ==
    { [dir |-> "states", name |-> Str_Goa,
       features |-> << Feature("NAME_1", Str_Goa, "Polygon", << <<Square(0, 0, 6, 6)>> >>) >>],
      [dir |-> "districts", name |-> Str_Pune,
       features |-> << Feature("dtname", Str_Pune, "Polygon", << <<Square(10, 2, 13, 6)>> >>) >>] }

GeoEnvs ==
    { [files |-> fs,
       output |-> [exists |-> oe, features |-> IF oe THEN OutputDistricts ELSE << >>],
       remote |-> [ok |-> ro, features |-> IF ro THEN RemoteStates ELSE << >>]]
      : fs \in SUBSET LocalFiles, oe \in BOOLEAN, ro \in BOOLEAN }

StateNames == {Str_Goa, Str_goa, Str_GOA, Str_Goa_lead,
               Str_TamilNadu, Str_tamil__nadu, Str_TAMIL_NADU_trail}
DistrictNames == {Str_Pune, Str_pune, Str_PUNE_trail, Str_Enclave}

Request(state, district, allstates) ==
    [state |-> state, district |-> district, allstates |-> allstates]

GeoRequests ==
    {Request(n, << >>, FALSE) : n \in StateNames} \cup
    {Request(<< >>, n, FALSE) : n \in DistrictNames} \cup
    {Request(Str_Goa, Str_pune, FALSE), Request(<< >>, << >>, TRUE),
     Request(<< >>, << >>, FALSE)}

\* how many requests a behaviour serves
MaxRequests == 2

GeoInit ==
    /\ geoEnv \in GeoEnvs
    /\ geoLog = << >>

\* the route serves one request
ServeGet(req) ==
    /\ Len(geoLog) < MaxRequests
    /\ geoLog' = Append(geoLog, [req |-> req, resp |-> GET(geoEnv, req)])
    /\ UNCHANGED geoEnv

-----------------------------------------------------------------------------
(* POST /api/detect-location.                                              *)

INDIAN_STATES ==
    << <<"A", "n", "d", "h", "r", "a", " ", "P", "r", "a", "d", "e", "s", "h">>,
       <<"A", "r", "u", "n", "a", "c", "h", "a", "l", " ", "P", "r", "a", "d", "e", "s", "h">>,
       <<"A", "s", "s", "a", "m">>,
       <<"B", "i", "h", "a", "r">>,
       <<"C", "h", "h", "a", "t", "t", "i", "s", "g", "a", "r", "h">>,
       <<"G", "o", "a">>,
       <<"G", "u", "j", "a", "r", "a", "t">>,
       <<"H", "a", "r", "y", "a", "n", "a">>,
       <<"H", "i", "m", "a", "c", "h", "a", "l", " ", "P", "r", "a", "d", "e", "s", "h">>,
       <<"J", "h", "a", "r", "k", "h", "a", "n", "d">>,
       <<"K", "a", "r", "n", "a", "t", "a", "k", "a">>,
       <<"K", "e", "r", "a", "l", "a">>,
       <<"M", "a", "d", "h", "y", "a", " ", "P", "r", "a", "d", "e", "s", "h">>,
       <<"M", "a", "h", "a", "r", "a", "s", "h", "t", "r", "a">>,
       <<"M", "a", "n", "i", "p", "u", "r">>,
       <<"M", "e", "g", "h", "a", "l", "a", "y", "a">>,
       <<"M", "i", "z", "o", "r", "a", "m">>,
       <<"N", "a", "g", "a", "l", "a", "n", "d">>,
       <<"O", "d", "i", "s", "h", "a">>,
       <<"P", "u", "n", "j", "a", "b">>,
       <<"R", "a", "j", "a", "s", "t", "h", "a", "n">>,
       <<"S", "i", "k", "k", "i", "m">>,
       <<"T", "a", "m", "i", "l", " ", "N", "a", "d", "u">>,
       <<"T", "e", "l", "a", "n", "g", "a", "n", "a">>,
       <<"T", "r", "i", "p", "u", "r", "a">>,
       <<"U", "t", "t", "a", "r", " ", "P", "r", "a", "d", "e", "s", "h">>,
       <<"U", "t", "t", "a", "r", "a", "k", "h", "a", "n", "d">>,
       <<"W", "e", "s", "t", " ", "B", "e", "n", "g", "a", "l">>,
       <<"A", "n", "d", "a", "m", "a", "n", " ", "a", "n", "d", " ", "N", "i", "c", "o", "b", "a", "r", " ", "I", "s", "l", "a", "n", "d", "s">>,
       <<"C", "h", "a", "n", "d", "i", "g", "a", "r", "h">>,
       <<"D", "a", "d", "r", "a", " ", "a", "n", "d", " ", "N", "a", "g", "a", "r", " ", "H", "a", "v", "e", "l", "i", " ", "a", "n", "d", " ", "D", "a", "m", "a", "n", " ", "a", "n", "d", " ", "D", "i", "u">>,
       <<"D", "e", "l", "h", "i">>,
       <<"J", "a", "m", "m", "u", " ", "a", "n", "d", " ", "K", "a", "s", "h", "m", "i", "r">>,
       <<"L", "a", "d", "a", "k", "h">>,
       <<"L", "a", "k", "s", "h", "a", "d", "w", "e", "e", "p">>,
       <<"P", "u", "d", "u", "c", "h", "e", "r", "r", "y">> >>

\* Object.entries(MAJOR_DISTRICTS): <<district, state>> in insertion order
MAJOR_DISTRICTS ==
    << <<<<"A", "h", "m", "e", "d", "a", "b", "a", "d">>,
          <<"G", "u", "j", "a", "r", "a", "t">>>>,
       <<<<"S", "u", "r", "a", "t">>,
          <<"G", "u", "j", "a", "r", "a", "t">>>>,
       <<<<"V", "a", "d", "o", "d", "a", "r", "a">>,
          <<"G", "u", "j", "a", "r", "a", "t">>>>,
       <<<<"R", "a", "j", "k", "o", "t">>,
          <<"G", "u", "j", "a", "r", "a", "t">>>>,
       <<<<"M", "u", "m", "b", "a", "i">>,
          <<"M", "a", "h", "a", "r", "a", "s", "h", "t", "r", "a">>>>,
       <<<<"P", "u", "n", "e">>,
          <<"M", "a", "h", "a", "r", "a", "s", "h", "t", "r", "a">>>>,
       <<<<"N", "a", "g", "p", "u", "r">>,
          <<"M", "a", "h", "a", "r", "a", "s", "h", "t", "r", "a">>>>,
       <<<<"B", "a", "n", "g", "a", "l", "o", "r", "e">>,
          <<"K", "a", "r", "n", "a", "t", "a", "k", "a">>>>,
       <<<<"B", "e", "n", "g", "a", "l", "u", "r", "u">>,
          <<"K", "a", "r", "n", "a", "t", "a", "k", "a">>>>,
       <<<<"C", "h", "e", "n", "n", "a", "i">>,
          <<"T", "a", "m", "i", "l", " ", "N", "a", "d", "u">>>>,
       <<<<"H", "y", "d", "e", "r", "a", "b", "a", "d">>,
          <<"T", "e", "l", "a", "n", "g", "a", "n", "a">>>>,
       <<<<"K", "o", "l", "k", "a", "t", "a">>,
          <<"W", "e", "s", "t", " ", "B", "e", "n", "g", "a", "l">>>>,
       <<<<"J", "a", "i", "p", "u", "r">>,
          <<"R", "a", "j", "a", "s", "t", "h", "a", "n">>>>,
       <<<<"L", "u", "c", "k", "n", "o", "w">>,
          <<"U", "t", "t", "a", "r", " ", "P", "r", "a", "d", "e", "s", "h">>>>,
       <<<<"P", "a", "t", "n", "a">>,
          <<"B", "i", "h", "a", "r">>>>,
       <<<<"B", "h", "o", "p", "a", "l">>,
          <<"M", "a", "d", "h", "y", "a", " ", "P", "r", "a", "d", "e", "s", "h">>>>,
       <<<<"I", "n", "d", "o", "r", "e">>,
          <<"M", "a", "d", "h", "y", "a", " ", "P", "r", "a", "d", "e", "s", "h">>>>,
       <<<<"T", "h", "i", "r", "u", "v", "a", "n", "a", "n", "t", "h", "a", "p", "u", "r", "a", "m">>,
          <<"K", "e", "r", "a", "l", "a">>>>,
       <<<<"K", "o", "c", "h", "i">>,
          <<"K", "e", "r", "a", "l", "a">>>>,
       <<<<"V", "i", "s", "a", "k", "h", "a", "p", "a", "t", "n", "a", "m">>,
          <<"A", "n", "d", "h", "r", "a", " ", "P", "r", "a", "d", "e", "s", "h">>>>,
       <<<<"G", "u", "w", "a", "h", "a", "t", "i">>,
          <<"A", "s", "s", "a", "m">>>>,
       <<<<"B", "h", "u", "b", "a", "n", "e", "s", "w", "a", "r">>,
          <<"O", "d", "i", "s", "h", "a">>>>,
       <<<<"R", "a", "i", "p", "u", "r">>,
          <<"C", "h", "h", "a", "t", "t", "i", "s", "g", "a", "r", "h">>>>,
       <<<<"R", "a", "n", "c", "h", "i">>,
          <<"J", "h", "a", "r", "k", "h", "a", "n", "d">>>>,
       <<<<"D", "e", "h", "r", "a", "d", "u", "n">>,
          <<"U", "t", "t", "a", "r", "a", "k", "h", "a", "n", "d">>>>,
       <<<<"S", "h", "i", "m", "l", "a">>,
          <<"H", "i", "m", "a", "c", "h", "a", "l", " ", "P", "r", "a", "d", "e", "s", "h">>>>,
       <<<<"S", "r", "i", "n", "a", "g", "a", "r">>,
          <<"J", "a", "m", "m", "u", " ", "a", "n", "d", " ", "K", "a", "s", "h", "m", "i", "r">>>>,
       <<<<"J", "a", "m", "m", "u">>,
          <<"J", "a", "m", "m", "u", " ", "a", "n", "d", " ", "K", "a", "s", "h", "m", "i", "r">>>>,
       <<<<"L", "e", "h">>,
          <<"L", "a", "d", "a", "k", "h">>>> >>

Str_india == <<"i", "n", "d", "i", "a">>
Str_India == <<"I", "n", "d", "i", "a">>

\* a DetectedLocation; stateName is "" when undefined
DetectedLocation(type, name, stateName) ==
    [type |-> type, name |-> name, stateName |-> stateName]

\* str.split(/\s+/)
RECURSIVE split(_)
split(str) ==
    IF \E i \in 1..Len(str) : str[i] \in Whitespace
    THEN LET i == CHOOSE i \in 1..Len(str) :
                     str[i] \in Whitespace /\ \A k \in 1..(i - 1) : str[k] \notin Whitespace
         IN  <<SubSeq(str, 1, i - 1)>> \o split(trimStart(SubSeq(str, i, Len(str))))
    ELSE <<str>>

NotFound == [found |-> FALSE, name |-> << >>]

\* the dtname of the first feature of output.geojson whose dtname normalises
\* to the district's
findDistrictInGeoJson(output, districtName) ==
    LET normalizedDistrict == normalizeLocationName(districtName)
        hit(k) == normalizeLocationName(output.features[k].properties.dtname)
                      = normalizedDistrict
    IN  IF ~output.exists \/ ~\E k \in 1..Len(output.features) : hit(k)
        THEN NotFound
        ELSE [found |-> TRUE,
              name |-> output.features[
                           CHOOSE k \in 1..Len(output.features) :
                               hit(k) /\ \A l \in 1..(k - 1) : ~hit(l)].properties.dtname]

\* the text as it is, letter case kept
normalizedTextCaseKept(text) == text

\* const normalizedText = text.toLowerCase()
normalizedTextOf(text) == toLowerCase(text)

\* the state some text names first in the order of INDIAN_STATES, or ""
firstStateIn(normalizedText) ==
    IF \E i \in 1..Len(INDIAN_STATES) : includes(normalizedText, toLowerCase(INDIAN_STATES[i]))
    THEN INDIAN_STATES[CHOOSE i \in 1..Len(INDIAN_STATES) :
            /\ includes(normalizedText, toLowerCase(INDIAN_STATES[i]))
            /\ \A k \in 1..(i - 1) : ~includes(normalizedText, toLowerCase(INDIAN_STATES[k]))]
    ELSE << >>

\* the state MAJOR_DISTRICTS lists a district name under, or ""
majorStateOf(name) ==
    IF \E i \in 1..Len(MAJOR_DISTRICTS) :
          normalizeLocationName(MAJOR_DISTRICTS[i][1]) = normalizeLocationName(name)
    THEN MAJOR_DISTRICTS[CHOOSE i \in 1..Len(MAJOR_DISTRICTS) :
            /\ normalizeLocationName(MAJOR_DISTRICTS[i][1]) = normalizeLocationName(name)
            /\ \A k \in 1..(i - 1) :
                  normalizeLocationName(MAJOR_DISTRICTS[k][1]) # normalizeLocationName(name)][2]
    ELSE << >>

\* "Check for India first": the country, unless the text names a state
indiaLocations(normalizedText) ==
    IF includes(normalizedText, Str_india)
          /\ ~\E i \in 1..Len(INDIAN_STATES) :
                 includes(normalizedText, toLowerCase(INDIAN_STATES[i]))
    THEN <<DetectedLocation("country", Str_India, << >>)>>
    ELSE << >>

\* the loop over Object.entries(MAJOR_DISTRICTS), from entry i on
RECURSIVE majorDistrictLoop(_, _, _)
majorDistrictLoop(i, normalizedText, foundLocations) ==
    IF i > Len(MAJOR_DISTRICTS) THEN foundLocations
    ELSE majorDistrictLoop(i + 1, normalizedText,
            IF includes(normalizedText, toLowerCase(MAJOR_DISTRICTS[i][1]))
            THEN Append(foundLocations,
                        DetectedLocation("district", MAJOR_DISTRICTS[i][1], MAJOR_DISTRICTS[i][2]))
            ELSE foundLocations)

\* the loop over the words of the text
RECURSIVE wordLoop(_, _, _, _)
wordLoop(words, output, normalizedText, foundLocations) ==
    IF words = << >> THEN foundLocations
    ELSE LET word == Head(words)
             foundDistrict == findDistrictInGeoJson(output, word)
             duplicate ==
                 \E k \in 1..Len(foundLocations) :
                     /\ foundLocations[k].type = "district"
                     /\ normalizeLocationName(foundLocations[k].name)
                            = normalizeLocationName(foundDistrict.name)
             stateName ==
                 IF firstStateIn(normalizedText) # << >> THEN firstStateIn(normalizedText)
                 ELSE majorStateOf(foundDistrict.name)
         IN  wordLoop(Tail(words), output, normalizedText,
                IF Len(word) > 2 /\ foundDistrict.found /\ ~duplicate
                THEN Append(foundLocations,
                            DetectedLocation("district", foundDistrict.name, stateName))
                ELSE foundLocations)

\* the loop over INDIAN_STATES, from state i on
RECURSIVE stateLoop(_, _, _)
stateLoop(i, normalizedText, foundLocations) ==
    IF i > Len(INDIAN_STATES) THEN foundLocations
    ELSE stateLoop(i + 1, normalizedText,
            IF /\ includes(normalizedText, toLowerCase(INDIAN_STATES[i]))
               /\ ~\E k \in 1..Len(foundLocations) :
                     /\ foundLocations[k].type = "state"
                     /\ normalizeLocationName(foundLocations[k].name)
                            = normalizeLocationName(INDIAN_STATES[i])
            THEN Append(foundLocations, DetectedLocation("state", INDIAN_STATES[i], << >>))
            ELSE foundLocations)

\* uniqueLocationsMap: the first location of each type and normalised name
uniqueLocations(foundLocations) ==
    LET key(k) == <<foundLocations[k].type, normalizeLocationName(foundLocations[k].name)>>
        first(k) == \A l \in 1..(k - 1) : key(l) # key(k)
    IN  SelectSeq([k \in 1..Len(foundLocations) |-> [at |-> k, loc |-> foundLocations[k]]],
                  LAMBDA e : first(e.at))

NoLocation == DetectedLocation("null", << >>, << >>)

\* the handler; text is "" when body.text is missing or empty
POST(output, text) ==
    IF text = << >>
    THEN [status |-> 400, location |-> NoLocation, locations |-> << >>]
    ELSE LET normalizedText == normalizedTextOf(text)
             found == stateLoop(1, normalizedText,
                        wordLoop(split(text), output, normalizedText,
                          majorDistrictLoop(1, normalizedText,
                            indiaLocations(normalizedText))))
             unique == uniqueLocations(found)
             locations == [k \in 1..Len(unique) |-> unique[k].loc]
         IN  [status |-> 200,
              location |-> IF locations # << >> THEN locations[1] ELSE NoLocation,
              locations |-> locations]

\* ---- the requests and the output.geojson the route is run on

Str_Thane == <<"T", "h", "a", "n", "e">>
Str_PUNE == <<"P", "U", "N", "E">>
Str_Gurgaon == <<"G", "u", "r", "g", "a", "o", "n">>
Str_water_in == <<"w", "a", "t", "e", "r", " ", "i", "n", " ">>
Str_and_Thane == <<" ", "a", "n", "d", " ", "T", "h", "a", "n", "e">>
Str__india == <<" ", "i", "n", "d", "i", "a">>

DetectDistricts ==
    << Feature("dtname", Str_Thane, "Polygon", << >>),
       Feature("dtname", Str_PUNE, "Polygon", << >>),
       Feature("NAME_2", Str_Gurgaon, "Polygon", << >>) >>

DetectOutputs ==
    { [exists |-> FALSE, features |-> << >>],
      [exists |-> TRUE, features |-> DetectDistricts] }

toUpperCaseChar(c) ==
    IF \E i \in 1..26 : LowerCase[i] = c
    THEN UpperCase[CHOOSE i \in 1..26 : LowerCase[i] = c]
    ELSE c

toUpperCase(str) == [i \in 1..Len(str) |-> toUpperCaseChar(str[i])]

DetectNames ==
    {INDIAN_STATES[i] : i \in 1..Len(INDIAN_STATES)}
        \cup {MAJOR_DISTRICTS[i][1] : i \in 1..Len(MAJOR_DISTRICTS)}
        \cup {Str_India, Str_Thane, Str_Gurgaon}

\* a name as listed, in lower case and in upper case, alone or inside a
\* sentence; and the empty body
DetectTexts ==
    { << >> } \cup
    { pre \o name \o post :
        pre \in { << >>, Str_water_in },
        name \in UNION { {n, toLowerCase(n), toUpperCase(n)} : n \in DetectNames },
        post \in { << >>, Str_and_Thane, Str__india } }

NoResponse == [status |-> 0, location |-> NoLocation, locations |-> << >>]

DetInit ==
    /\ detText \in DetectTexts
    /\ detOutput \in DetectOutputs
    /\ detResponse = NoResponse

\* the route serves the request
ServePost ==
    /\ detResponse = NoResponse
    /\ detResponse' = POST(detOutput, detText)
    /\ UNCHANGED <<detText, detOutput>>

-----------------------------------------------------------------------------
(* ringToPath and projectPoint on their own.                               *)

\* the widths and heights of the bounds run from 1/2 to MaxExtent/2
MaxExtent == 4

Canvases == { <<SVG_WIDTH, SVG_HEIGHT>>, <<SVG_HEIGHT, SVG_WIDTH>>, <<1, 1>> }

BoundsOf(minLon, minLat, width, height) ==
    [present |-> TRUE,
     minLon |-> minLon, maxLon |-> RAdd(minLon, width),
     minLat |-> minLat, maxLat |-> RAdd(minLat, height),
     width |-> width, height |-> height]

ProjBounds ==
    { BoundsOf(RInt(lon), Rat(lat, 2), Rat(w2, 2), Rat(h2, 2)) :
        lon \in {-3, 68}, lat \in {0, 17}, w2 \in 1..MaxExtent, h2 \in 1..MaxExtent }

\* the corners, the edge midpoints and the centre of the bounds
PointsIn(b) ==
    { <<RAdd(b.minLon, RMul(b.width, Rat(i, 2))), RAdd(b.minLat, RMul(b.height, Rat(j, 2)))>> :
        i \in 0..2, j \in 0..2 }

NoProjection == [done |-> FALSE, path |-> << >>, points |-> << >>]

ProjInit ==
    /\ \E b \in ProjBounds, cv \in Canvases :
         \E c1 \in PointsIn(b), c2 \in PointsIn(b) :
            projIn = [bounds |-> b, w |-> cv[1], h |-> cv[2], ring |-> <<c1, c2>>]
    /\ projOut = NoProjection

\* a render draws the ring as a path and projects each of its points
Project ==
    /\ ~projOut.done
    /\ projOut' = [done |-> TRUE,
                   path |-> ringToPath(projIn.ring, projIn.bounds, projIn.w, projIn.h),
                   points |-> [i \in 1..Len(projIn.ring) |->
                                 projectPoint(projIn.ring[i], projIn.bounds, projIn.w, projIn.h)]]
    /\ UNCHANGED projIn

-----------------------------------------------------------------------------
(* useDebouncedCallback.                                                   *)

\* the delay handed to the hook, how long time is followed, and the times
\* that pass in one step
DetectDelay == 300
DbHorizon == 900
DbSteps == {100, DetectDelay}

\* clearTimeout(id): the timeouts left
clearTimeout(timers, id) == {t \in timers : t.id # id}

\* setTimeout(callback, delay): the timeouts with the new one, whose id is one
\* that names no pending timeout
NewTimeoutId(timers) ==
    CHOOSE n \in 1..(Cardinality(timers) + 1) :
        /\ \A t \in timers : t.id # n
        /\ \A m \in 1..(n - 1) : \E t \in timers : t.id = m
setTimeout(timers, args) ==
    timers \cup {[id |-> NewTimeoutId(timers), due |-> dbNow + DetectDelay, args |-> args]}

\* debouncedFn without its clearTimeout of the old timeout
debouncedFnKeepsOld(args) ==
    /\ dbTimers' = setTimeout(dbTimers, args)
    /\ dbTimeoutRef' = NewTimeoutId(dbTimers)
    /\ dbLastCall' = [id |-> NewTimeoutId(dbTimers), time |-> dbNow, args |-> args,
                      pending |-> Cardinality(dbTimers)]
    /\ UNCHANGED <<dbNow, dbMounted, dbInvoked>>

\* debouncedFn(...args): clear the old timeout, set a new one
debouncedFn(args) ==
    /\ dbTimers' = setTimeout(clearTimeout(dbTimers, dbTimeoutRef), args)
    /\ dbTimeoutRef' = NewTimeoutId(clearTimeout(dbTimers, dbTimeoutRef))
    /\ dbLastCall' = [id |-> NewTimeoutId(clearTimeout(dbTimers, dbTimeoutRef)),
                      time |-> dbNow, args |-> args, pending |-> Cardinality(dbTimers)]
    /\ UNCHANGED <<dbNow, dbMounted, dbInvoked>>

\* a timeout runs, at its due time or later: callback(...args)
dbTimeout(t) ==
    /\ t \in dbTimers
    /\ dbNow >= t.due
    /\ dbTimers' = dbTimers \ {t}
    /\ dbInvoked' = [id |-> t.id, time |-> dbNow, args |-> t.args]
    /\ UNCHANGED <<dbTimeoutRef, dbNow, dbMounted, dbLastCall>>

\* the component unmounts: the hook's cleanup clears the timeout
dbUnmount ==
    /\ dbMounted
    /\ dbMounted' = FALSE
    /\ dbTimers' = clearTimeout(dbTimers, dbTimeoutRef)
    /\ UNCHANGED <<dbTimeoutRef, dbNow, dbLastCall, dbInvoked>>

\* time passes
DbTick(d) ==
    /\ dbNow + d <= DbHorizon
    /\ dbNow' = dbNow + d
    /\ UNCHANGED <<dbTimers, dbTimeoutRef, dbMounted, dbLastCall, dbInvoked>>

\* dbLastCall before any call (pending is the number of timeouts that were
\* pending when the call was made), and dbInvoked before any invocation
NoCall == [id |-> 0, time |-> 0, args |-> << >>, pending |-> 0]
NoInvocation == [id |-> 0, time |-> 0, args |-> << >>]

DbInit ==
    /\ dbTimers = {}
    /\ dbTimeoutRef = 0
    /\ dbNow = 0
    /\ dbMounted = TRUE
    /\ dbLastCall = NoCall
    /\ dbInvoked = NoInvocation

-----------------------------------------------------------------------------
(* ChatPage.                                                               *)

\* how many messages the transcript is followed to
MaxMessages == 3

Str_hi == <<"h", "i">>
Str_spaces == <<" ", " ">>
Str_answer == <<"o", "k">>
Str_error == <<"S", "o", "r", "r", "y", ",", " ", "I", " ", "e", "n", "c", "o", "u", "n", "t", "e", "r", "e", "d", " ", "a", "n", " ", "e", "r", "r", "o", "r", " ", "w", "h", "i", "l", "e", " ", "p", "r", "o", "c", "e", "s", "s", "i", "n", "g", " ", "y", "o", "u", "r", " ", "r", "e", "q", "u", "e", "s", "t", ".", " ", "P", "l", "e", "a", "s", "e", " ", "m", "a", "k", "e", " ", "s", "u", "r", "e", " ", "t", "h", "e", " ", "b", "a", "c", "k", "e", "n", "d", " ", "A", "P", "I", " ", "i", "s", " ", "r", "u", "n", "n", "i", "n", "g", " ", "a", "n", "d", " ", "a", "c", "c", "e", "s", "s", "i", "b", "l", "e", ".">>
Str_error_start == <<"S", "o", "r", "r", "y", ",", " ", "I", " ", "e", "n", "c", "o", "u", "n", "t", "e", "r", "e", "d", " ", "a", "n", " ", "e", "r", "r", "o", "r", " ", "w", "h", "i", "l", "e", " ", "p", "r", "o", "c", "e", "s", "s", "i", "n", "g", " ", "y", "o", "u", "r", " ", "r", "e", "q", "u", "e", "s", "t", ".">>

\* suggestionPrompts[3]
Str_prompt == <<"S", "h", "o", "w", " ", "c", "a", "t", "e", "g", "o", "r", "y", " ", "d", "i", "s", "t", "r", "i", "b", "u", "t", "i", "o", "n">>

\* what can be typed into the input field
TypedValues == { << >>, Str_spaces, Str_goa }

\* the final and the interim transcript a speech result can carry
SpeechResults == { <<<< >>, << >>>>, <<Str_hi, << >>>>, <<<< >>, Str_hi>> }

\* the texts that can be sent: typed, spoken or suggested
SentTexts ==
    {trim(v) : v \in TypedValues}
    \cup {trim(r[1] \o <<" ">> \o r[2]) : r \in SpeechResults}
    \cup {Str_prompt, Str_goa}

Handler(name, arg) == [name |-> name, arg |-> arg]

Undefined == [defined |-> FALSE, value |-> << >>]
Defined(v) == [defined |-> TRUE, value |-> v]

\* a Message (its id and timestamp are left out)
Message(role, content, data, chart, locationInfo, locations) ==
    [role |-> role, content |-> content, data |-> data, chart |-> chart,
     locationInfo |-> locationInfo, locations |-> locations]

userMessage(textToSend) ==
    Message("user", textToSend, Undefined, Undefined, Undefined, Undefined)

\* the error message with another text
errorMessageOops ==
    Message("assistant", <<"O", "o", "p", "s">>, Undefined, Undefined, Undefined, Undefined)

errorMessage ==
    Message("assistant", Str_error, Undefined, Undefined, Undefined, Undefined)

\* what `await fetch(apiUrl + "/query")` and `await response.json()` come to:
\* the fetch rejects, the status is not OK, the body does not parse, the body
\* is an ApiResponse, or the body is JSON that is no object (null)
QueryOutcomes ==
    { [kind |-> "rejects", body |-> Undefined],
      [kind |-> "notOk",   body |-> Undefined],
      [kind |-> "badJson", body |-> Undefined],
      [kind |-> "null",    body |-> Undefined] }
    \cup
    { [kind |-> "ok", body |-> Defined([response |-> Str_answer, data |-> Defined("rows"),
                                        chart |-> Defined("chart")])] }

\* what the fetch of /api/detect-location comes to: it rejects, the status is
\* not OK, the body does not parse, or the route's answer for the text
DetectAnswers ==
    [text \in SentTexts |-> {POST(output, text) : output \in DetectOutputs}]

DetectOutcomes(text) ==
    { [kind |-> "rejects", body |-> NoResponse],
      [kind |-> "notOk",   body |-> NoResponse],
      [kind |-> "badJson", body |-> NoResponse] }
    \cup
    { [kind |-> "ok", body |-> answer] : answer \in DetectAnswers[text] }

Idle == [pc |-> "idle", textToSend |-> << >>, data |-> Undefined, dataKind |-> "none"]

ChatInit ==
    /\ messages = << >>
    /\ input = << >>
    /\ isLoading = FALSE
    /\ isListening = FALSE
    /\ recognitionRef = "none"
    /\ inputValueRef = << >>
    /\ inputEffectPending = FALSE
    /\ sendPc = Idle
    /\ fetches = << >>
    /\ lastHandler = Handler("none", << >>)

\* handleInputChange: setInput(newValue), whose commit runs the effect that
\* copies input to inputValueRef, and debouncedDetectLocation(newValue)
handleInputChange(newValue) ==
    /\ lastHandler' = Handler("handleInputChange", << >>)
    /\ dbMounted
    /\ ~isLoading
    /\ input' = newValue
    /\ inputValueRef' = newValue
    /\ inputEffectPending' = FALSE
    /\ debouncedFn(newValue)
    /\ UNCHANGED <<messages, isLoading, isListening, recognitionRef, sendPc,
                   fetches>>

\* sendMessage whose guard does not trim the text
sendMessageUntrimmed(messageText) ==
    LET textToSend == IF messageText # << >> THEN messageText ELSE input
    IN  IF textToSend = << >> \/ isLoading
        THEN [messages |-> messages, input |-> input, inputValueRef |-> inputValueRef,
              inputEffectPending |-> inputEffectPending,
              isLoading |-> isLoading, sendPc |-> sendPc, fetches |-> fetches]
        ELSE [messages |-> Append(messages, userMessage(textToSend)),
              input |-> << >>,
              inputValueRef |-> << >>,
              inputEffectPending |-> FALSE,
              isLoading |-> TRUE,
              sendPc |-> [pc |-> "query", textToSend |-> textToSend,
                          data |-> Undefined, dataKind |-> "none"],
              fetches |-> Append(fetches, [url |-> "query", text |-> textToSend])]

\* sendMessage(messageText) up to its first await; messageText is "" when the
\* argument is left out.  Gives the new messages, input, inputValueRef,
\* isLoading, sendPc and fetches.
sendMessage(messageText) ==
    LET textToSend == IF messageText # << >> THEN messageText ELSE input
    IN  IF trim(textToSend) = << >> \/ isLoading
        THEN [messages |-> messages, input |-> input, inputValueRef |-> inputValueRef,
              inputEffectPending |-> inputEffectPending,
              isLoading |-> isLoading, sendPc |-> sendPc, fetches |-> fetches]
        ELSE [messages |-> Append(messages, userMessage(textToSend)),
              input |-> << >>,
              inputValueRef |-> << >>,
              inputEffectPending |-> FALSE,
              isLoading |-> TRUE,
              sendPc |-> [pc |-> "query", textToSend |-> textToSend,
                          data |-> Undefined, dataKind |-> "none"],
              fetches |-> Append(fetches, [url |-> "query", text |-> textToSend])]

\* a handler calls sendMessage(messageText)
CallSendMessage(name, messageText) ==
    /\ Len(messages) < MaxMessages
    /\ lastHandler' = Handler(name, messageText)
    /\ messages' = sendMessage(messageText).messages
    /\ input' = sendMessage(messageText).input
    /\ inputValueRef' = sendMessage(messageText).inputValueRef
    /\ inputEffectPending' = sendMessage(messageText).inputEffectPending
    /\ isLoading' = sendMessage(messageText).isLoading
    /\ sendPc' = sendMessage(messageText).sendPc
    /\ fetches' = sendMessage(messageText).fetches

\* Enter in the input field, which is disabled while loading
handleKeyPress ==
    /\ ~isLoading
    /\ CallSendMessage("handleKeyPress", << >>)
    /\ UNCHANGED <<isListening, recognitionRef>>

\* the Send button, disabled while loading or while the input is blank
clickSend ==
    /\ ~isLoading
    /\ trim(input) # << >>
    /\ CallSendMessage("clickSend", << >>)
    /\ UNCHANGED <<isListening, recognitionRef>>

\* a suggestion, shown while there is no message
handleSuggestionClick(prompt) ==
    /\ messages = << >>
    /\ CallSendMessage("handleSuggestionClick", prompt)
    /\ UNCHANGED <<isListening, recognitionRef>>

\* queryResolves without the catch block's error message
queryResolvesSilent(outcome) ==
    /\ lastHandler' = Handler("queryResolves", outcome.kind)
    /\ sendPc.pc = "query"
    /\ IF outcome.kind \in {"rejects", "notOk", "badJson"}
       THEN /\ isLoading' = FALSE
            /\ sendPc' = Idle
            /\ UNCHANGED <<messages, fetches>>
       ELSE /\ sendPc' = [sendPc EXCEPT !.pc = "detect", !.data = outcome.body,
                                        !.dataKind = outcome.kind]
            /\ fetches' = Append(fetches, [url |-> "detect", text |-> sendPc.textToSend])
            /\ UNCHANGED <<messages, isLoading>>
    /\ UNCHANGED <<input, isListening, recognitionRef, inputValueRef,
                   inputEffectPending>>

\* sendMessage from the /query fetch to the next await, or to its end
queryResolves(outcome) ==
    /\ lastHandler' = Handler("queryResolves", outcome.kind)
    /\ sendPc.pc = "query"
    /\ IF outcome.kind \in {"rejects", "notOk", "badJson"}
       THEN /\ messages' = Append(messages, errorMessage)
            /\ isLoading' = FALSE
            /\ sendPc' = Idle
            /\ UNCHANGED fetches
       ELSE /\ sendPc' = [sendPc EXCEPT !.pc = "detect", !.data = outcome.body,
                                        !.dataKind = outcome.kind]
            /\ fetches' = Append(fetches, [url |-> "detect", text |-> sendPc.textToSend])
            /\ UNCHANGED <<messages, isLoading>>
    /\ UNCHANGED <<input, isListening, recognitionRef, inputValueRef,
                   inputEffectPending>>

\* queryDetectResolves with a failed detection thrown to the outer catch
queryDetectResolvesThrows(outcome) ==
    /\ lastHandler' = Handler("queryDetectResolves", outcome.kind)
    /\ sendPc.pc = "detect"
    /\ LET detectOk == outcome.kind = "ok"
           locationInfo == IF detectOk /\ outcome.body.location # NoLocation
                           THEN Defined(outcome.body.location) ELSE Undefined
           locations == IF detectOk THEN Defined(outcome.body.locations) ELSE Undefined
       IN  messages' = Append(messages,
               IF sendPc.dataKind = "null" \/ ~detectOk
               THEN errorMessage
               ELSE Message("assistant", sendPc.data.value.response,
                            sendPc.data.value.data, sendPc.data.value.chart,
                            locationInfo, locations))
    /\ isLoading' = FALSE
    /\ sendPc' = Idle
    /\ UNCHANGED <<input, isListening, recognitionRef, inputValueRef,
                   inputEffectPending, fetches>>

\* sendMessage from the /api/detect-location fetch to its end
queryDetectResolves(outcome) ==
    /\ lastHandler' = Handler("queryDetectResolves", outcome.kind)
    /\ sendPc.pc = "detect"
    /\ LET detectOk == outcome.kind = "ok"
           locationInfo == IF detectOk /\ outcome.body.location # NoLocation
                           THEN Defined(outcome.body.location) ELSE Undefined
           locations == IF detectOk THEN Defined(outcome.body.locations) ELSE Undefined
       IN  messages' = Append(messages,
               IF sendPc.dataKind = "null"
               THEN errorMessage
               ELSE Message("assistant", sendPc.data.value.response,
                            sendPc.data.value.data, sendPc.data.value.chart,
                            locationInfo, locations))
    /\ isLoading' = FALSE
    /\ sendPc' = Idle
    /\ UNCHANGED <<input, isListening, recognitionRef, inputValueRef,
                   inputEffectPending, fetches>>

\* the microphone button while not listening: recognition.start()
startListening ==
    /\ lastHandler' = Handler("startListening", << >>)
    /\ ~isListening
    /\ ~isLoading
    /\ recognitionRef \in {"none", "ended"}
    /\ recognitionRef' = "starting"
    /\ UNCHANGED <<messages, input, isLoading, isListening, inputValueRef,
                   inputEffectPending, sendPc, fetches>>

onstart ==
    /\ lastHandler' = Handler("onstart", << >>)
    /\ recognitionRef = "starting"
    /\ recognitionRef' = "active"
    /\ isListening' = TRUE
    /\ UNCHANGED <<messages, input, isLoading, inputValueRef,
                   inputEffectPending, sendPc, fetches>>

\* a speech result: setInput(combined) from outside a React event, so the
\* effect that copies input to inputValueRef runs later
onresult(finalTranscript, interimTranscript) ==
    /\ lastHandler' = Handler("onresult", << >>)
    /\ recognitionRef \in {"active", "stopping"}
    /\ LET combined == trim(finalTranscript \o <<" ">> \o interimTranscript)
       IN  IF combined # << >> /\ combined # input
           THEN input' = combined /\ inputEffectPending' = TRUE
           ELSE UNCHANGED <<input, inputEffectPending>>
    /\ UNCHANGED <<messages, isLoading, isListening, recognitionRef, inputValueRef,
                   sendPc, fetches>>

\* useEffect(() => { inputValueRef.current = input }, [input])
inputValueRefEffect ==
    /\ lastHandler' = Handler("inputValueRefEffect", << >>)
    /\ inputEffectPending
    /\ inputValueRef' = input
    /\ inputEffectPending' = FALSE
    /\ UNCHANGED <<messages, input, isLoading, isListening, recognitionRef,
                   sendPc, fetches>>

onerror ==
    /\ lastHandler' = Handler("onerror", << >>)
    /\ recognitionRef \in {"starting", "active"}
    /\ recognitionRef' = "stopping"
    /\ isListening' = FALSE
    /\ UNCHANGED <<messages, input, isLoading, inputValueRef,
                   inputEffectPending, sendPc, fetches>>

\* onend, whose isListening is the false of the render that started listening
onend ==
    /\ lastHandler' = Handler("onend", << >>)
    /\ recognitionRef \in {"active", "stopping"}
    /\ recognitionRef' = "ended"
    /\ isListening' = FALSE
    /\ UNCHANGED <<messages, input, isLoading, inputValueRef,
                   inputEffectPending, sendPc, fetches>>

\* the microphone button while listening; it is disabled while loading
stopListening ==
    /\ isListening
    /\ ~isLoading
    /\ recognitionRef' = (IF recognitionRef \in {"starting", "active"} THEN "stopping"
                          ELSE recognitionRef)
    /\ isListening' = FALSE
    /\ LET latestText == inputValueRef
       IN  IF latestText # << >> /\ Len(trim(latestText)) > 0 /\ ~isLoading
           THEN CallSendMessage("stopListening", latestText)
           ELSE /\ lastHandler' = Handler("stopListening", << >>)
                /\ UNCHANGED <<messages, input, inputValueRef, inputEffectPending,
                               isLoading, sendPc, fetches>>

-----------------------------------------------------------------------------
(* isPointInPolygon on its own.                                            *)

\* the rings have their vertices on the grid 0..MaxX by GridYs, the points
\* lie on the grid of half that step, one half step beyond it on each side
MaxX == 2
GridYs == 0..2
RingSizes == {3, 4}

GridPoints == {<<x, y>> : x \in 0..MaxX, y \in GridYs}

PipPoints ==
    {[x |-> Rat(k, 2), y |-> Rat(l, 2)] :
        k \in (-1)..(2 * MaxX + 1), l \in (-1)..(2 * SetMax(GridYs) + 1)}

Low(a, b) == IF a < b THEN a ELSE b
High(a, b) == IF a < b THEN b ELSE a

Cross(o, a, b) == (a[1] - o[1]) * (b[2] - o[2]) - (a[2] - o[2]) * (b[1] - o[1])

\* p lies on the segment from a to b
OnSegment(p, a, b) ==
    /\ Cross(a, b, p) = 0
    /\ Low(a[1], b[1]) <= p[1] /\ p[1] <= High(a[1], b[1])
    /\ Low(a[2], b[2]) <= p[2] /\ p[2] <= High(a[2], b[2])

Sign(v) == IF v > 0 THEN 1 ELSE IF v < 0 THEN -1 ELSE 0

\* the segments a-b and c-d have a point in common
SegmentsMeet(a, b, c, d) ==
    \/ /\ Sign(Cross(a, b, c)) * Sign(Cross(a, b, d)) < 0
       /\ Sign(Cross(c, d, a)) * Sign(Cross(c, d, b)) < 0
    \/ OnSegment(c, a, b) \/ OnSegment(d, a, b)
    \/ OnSegment(a, c, d) \/ OnSegment(b, c, d)

\* the vertices, taken round, make a simple ring: they are distinct, edges
\* that are not neighbours have no point in common, and neighbours have only
\* their shared vertex in common
IsSimple(points) ==
    LET n == Len(points)
        next(k) == IF k = n THEN 1 ELSE k + 1
    IN  /\ \A k, m \in 1..n : k # m => points[k] # points[m]
        /\ \A k, m \in 1..n :
              (k < m /\ next(k) # m /\ next(m) # k) =>
                 ~SegmentsMeet(points[k], points[next(k)], points[m], points[next(m)])
        /\ \A k \in 1..n :
              /\ ~OnSegment(points[next(next(k))], points[k], points[next(k)])
              /\ ~OnSegment(points[k], points[next(k)], points[next(next(k))])

\* the simple closed rings on the grid, in both orientations and from every
\* start vertex, the first vertex repeated at the end
PipRings ==
    {Ring(points) : points \in
        {ps \in UNION {[1..n -> GridPoints] : n \in RingSizes} : IsSimple(ps)}}

\* the ring taken the other way round, and the ring from its second vertex
Reversed(ring) == [k \in 1..Len(ring) |-> ring[Len(ring) + 1 - k]]
Rotated(ring) == Tail(ring) \o <<ring[2]>>

NoRing == << >>
NotRun == [given |-> {}, reversed |-> {}, rotated |-> {}, done |-> FALSE]

PipInit ==
    /\ pipRing \in PipRings
    /\ pipOut = NotRun

\* isPointInPolygon is called for every point, with the ring as given, the
\* other way round, and from its second vertex; the points it returns true for
RunPointInPolygon ==
    /\ ~pipOut.done
    /\ pipOut' = [given    |-> {p \in PipPoints : isPointInPolygon(p, pipRing)},
                  reversed |-> {p \in PipPoints : isPointInPolygon(p, Reversed(pipRing))},
                  rotated  |-> {p \in PipPoints : isPointInPolygon(p, Rotated(pipRing))},
                  done     |-> TRUE]
    /\ UNCHANGED pipRing

-----------------------------------------------------------------------------
(* Specifications.  Each follows one part of the program and holds the    *)
(* others still.                                                           *)

MapIdle ==
    /\ location = [type |-> "country", name |-> "India", stateName |-> ""]
    /\ MapInit
GeoIdle ==
    /\ geoEnv = [files |-> {},
                 output |-> [exists |-> TRUE, features |-> OutputDistricts],
                 remote |-> [ok |-> TRUE, features |-> RemoteStates]]
    /\ GeoInit
DetIdle ==
    /\ detText = << >>
    /\ detOutput = [exists |-> FALSE, features |-> << >>]
    /\ DetInit
ProjIdle ==
    /\ projIn = [bounds |-> BoundsOf(Zero, Zero, One, One), w |-> 1, h |-> 1,
                 ring |-> <<<<Zero, Zero>>, <<Zero, Zero>>>>]
    /\ projOut = NoProjection

PipIdle ==
    /\ pipRing = NoRing
    /\ pipOut = NotRun

\* the map component
Init == PipIdle /\ GeoIdle /\ DetIdle /\ ProjIdle /\ ChatInit /\ DbInit /\ MapInit
MapFrame == UNCHANGED <<geoVars, detVars, projVars, chatVars, dbVars, pipVars>>
Next ==
    \/ MapFrame /\ \E r \in Responses(location) : loadGeoJson(r)
    \/ MapFrame /\ \E r \in FallbackResponses : loadGeoJsonFallback(r)
    \/ MapFrame /\ \E h \in Hoverable : handleFeatureHoverStart(h[1], h[2])
    \/ MapFrame /\ debounceTimeout
    \/ MapFrame /\ animateHover
    \/ MapFrame /\ hoverTimeout
    \/ MapFrame /\ handleFeatureHoverEnd
    \/ MapFrame /\ handleReset
    \/ MapFrame /\ animate
    \/ MapFrame /\ \E d \in TimeSteps : Tick(d)
Spec == Init /\ [][Next]_vars

\* GET /api/geojson
GeoSpecInit == PipIdle /\ MapIdle /\ DetIdle /\ ProjIdle /\ ChatInit /\ DbInit /\ GeoInit
GeoSpecNext ==
    \E req \in GeoRequests : ServeGet(req) /\ UNCHANGED <<mapVars, detVars, projVars, chatVars, dbVars, pipVars>>
GeoSpec == GeoSpecInit /\ [][GeoSpecNext]_vars

\* POST /api/detect-location
DetSpecInit == PipIdle /\ MapIdle /\ GeoIdle /\ ProjIdle /\ ChatInit /\ DbInit /\ DetInit
DetSpecNext == ServePost /\ UNCHANGED <<mapVars, geoVars, projVars, chatVars, dbVars, pipVars>>
DetSpec == DetSpecInit /\ [][DetSpecNext]_vars

\* the projection
ProjSpecInit == PipIdle /\ MapIdle /\ GeoIdle /\ DetIdle /\ ChatInit /\ DbInit /\ ProjInit
ProjSpecNext == Project /\ UNCHANGED <<mapVars, geoVars, detVars, chatVars, dbVars, pipVars>>
ProjSpec == ProjSpecInit /\ [][ProjSpecNext]_vars

\* isPointInPolygon
PipSpecInit == MapIdle /\ GeoIdle /\ DetIdle /\ ProjIdle /\ ChatInit /\ DbInit /\ PipInit
PipSpecNext ==
    RunPointInPolygon /\ UNCHANGED <<mapVars, geoVars, detVars, projVars, chatVars, dbVars>>
PipSpec == PipSpecInit /\ [][PipSpecNext]_vars

\* the debounced detection of the chat page's input field
DebSpecInit == PipIdle /\ MapIdle /\ GeoIdle /\ DetIdle /\ ProjIdle /\ ChatInit /\ DbInit
DebFrame == UNCHANGED <<mapVars, geoVars, detVars, projVars, pipVars, chatVars>>
DebSpecNext ==
    \/ /\ \E newValue \in TypedValues : handleInputChange(newValue)
       /\ UNCHANGED <<mapVars, geoVars, detVars, projVars, pipVars>>
    \/ DebFrame /\ \E t \in dbTimers : dbTimeout(t)
    \/ DebFrame /\ dbUnmount
    \/ DebFrame /\ \E d \in DbSteps : DbTick(d)
DebSpec == DebSpecInit /\ [][DebSpecNext]_vars

\* the chat page
ChatSpecInit == PipIdle /\ MapIdle /\ GeoIdle /\ DetIdle /\ ProjIdle /\ DbInit /\ ChatInit
ChatFrame == UNCHANGED <<mapVars, geoVars, detVars, projVars, pipVars, dbVars>>
ChatSpecNext ==
    \/ /\ \E newValue \in TypedValues : handleInputChange(newValue)
       /\ UNCHANGED <<mapVars, geoVars, detVars, projVars, pipVars>>
    \/ ChatFrame /\ handleKeyPress
    \/ ChatFrame /\ clickSend
    \/ ChatFrame /\ handleSuggestionClick(Str_prompt)
    \/ ChatFrame /\ \E outcome \in QueryOutcomes : queryResolves(outcome)
    \/ ChatFrame /\ \E outcome \in DetectOutcomes(sendPc.textToSend) : queryDetectResolves(outcome)
    \/ ChatFrame /\ startListening
    \/ ChatFrame /\ onstart
    \/ ChatFrame /\ \E r \in SpeechResults : onresult(r[1], r[2])
    \/ ChatFrame /\ inputValueRefEffect
    \/ ChatFrame /\ onerror
    \/ ChatFrame /\ onend
    \/ ChatFrame /\ stopListening
ChatSpec == ChatSpecInit /\ [][ChatSpecNext]_vars

\* the chat page when every fetch resolves or rejects in the end
ChatFairSpec ==
    /\ ChatSpec
    /\ WF_vars(ChatFrame /\ \E outcome \in QueryOutcomes : queryResolves(outcome))
    /\ WF_vars(ChatFrame /\ \E outcome \in DetectOutcomes(sendPc.textToSend) :
                               queryDetectResolves(outcome))

-----------------------------------------------------------------------------
(* Properties of GET /api/geojson.                                         *)

\* The area of a feature whose edges are parallel to the axes, as the set of
\* unit cells <<i, j>> (the square from <<i, j>> to <<i+1, j+1>>) it covers:
\* a cell is in a ring when an odd number of the ring's vertical edges that
\* span the cell's row lie to its right, and in a polygon when it is in the
\* outer ring and in no hole.
CellInRing(i, j, ring) ==
    Cardinality({k \in 1..(Len(ring) - 1) :
                    /\ ring[k][1] = ring[k + 1][1]
                    /\ ring[k][1] > i
                    /\ Low(ring[k][2], ring[k + 1][2]) <= j
                    /\ j < High(ring[k][2], ring[k + 1][2])}) % 2 = 1

CellInPolygon(i, j, rings) ==
    /\ rings # << >>
    /\ CellInRing(i, j, rings[1])
    /\ \A h \in 2..Len(rings) : ~CellInRing(i, j, rings[h])

Grid == (0..15) \X (0..7)

CellsOf(feature) ==
    {c \in Grid : \E p \in 1..Len(feature.geometry.polygons) :
                     CellInPolygon(c[1], c[2], feature.geometry.polygons[p])}

CellsOfAll(features) == UNION {CellsOf(features[k]) : k \in 1..Len(features)}

LiesInside(district, stateFeatures) ==
    CellsOf(district) # {} /\ CellsOf(district) \subseteq CellsOfAll(stateFeatures)

LiesOutside(district, stateFeatures) ==
    CellsOf(district) \cap CellsOfAll(stateFeatures) = {}

\* C4: a request with a state and no district whose outline is found returns
\* in districtsGeoJson every feature of output.geojson that lies inside the
\* state and no feature that lies outside it.
C4_AllDistrictsWithinState ==
    \A k \in 1..Len(geoLog) :
        LET req == geoLog[k].req
            resp == geoLog[k].resp
            returned == Range(resp.districtsGeoJson.features)
        IN  (req.state # << >> /\ req.district = << >> /\ ~req.allstates
                /\ resp.status = 200) =>
              \A d \in Range(geoEnv.output.features) :
                  /\ LiesInside(d, resp.geoJson.features) => d \in returned
                  /\ LiesOutside(d, resp.geoJson.features) => d \notin returned

\* the words of a name, in lower case: two names with the same words differ
\* only in letter case and in whitespace
RECURSIVE WordsOf(_)
WordsOf(name) ==
    LET rest == trimStart(name)
        n == IF \E i \in 1..Len(rest) : rest[i] \in Whitespace
             THEN (CHOOSE i \in 1..Len(rest) :
                      rest[i] \in Whitespace /\ \A k \in 1..(i - 1) : rest[k] \notin Whitespace) - 1
             ELSE Len(rest)
    IN  IF rest = << >> THEN << >>
        ELSE <<toLowerCase(SubSeq(rest, 1, n))>> \o WordsOf(SubSeq(rest, n + 1, Len(rest)))

SameName(a, b) == WordsOf(a) = WordsOf(b)

\* C8: two requests whose state and district names differ only in letter
\* case, leading or trailing whitespace or the length of inner whitespace
\* runs get the same status and the same features, whatever the files hold.
C8_NamesMatchedFlexibly ==
    \A k, l \in 1..Len(geoLog) :
        (/\ SameName(geoLog[k].req.state, geoLog[l].req.state)
         /\ SameName(geoLog[k].req.district, geoLog[l].req.district)
         /\ geoLog[k].req.allstates = geoLog[l].req.allstates) =>
            /\ geoLog[k].resp.status = geoLog[l].resp.status
            /\ geoLog[k].resp.geoJson = geoLog[l].resp.geoJson
            /\ geoLog[k].resp.districtsGeoJson = geoLog[l].resp.districtsGeoJson

\* what holds instead: without local files under public/geojson the names
\* are matched by normalizeLocationName alone
C8_FlexibleWithoutLocalFiles == geoEnv.files = {} => C8_NamesMatchedFlexibly

-----------------------------------------------------------------------------
(* Properties of POST /api/detect-location.                                *)

\* two characters that are the same letter in either case
SameLetter(a, b) == a = b \/ \E i \in 1..26 : {a, b} = {UpperCase[i], LowerCase[i]}

\* the text contains the name, in any letter case
ContainsAnyCase(text, name) ==
    \E i \in 0..(Len(text) - Len(name)) :
        \A k \in 1..Len(name) : SameLetter(text[i + k], name[k])

Listed(entry) ==
    \/ /\ entry.type = "state"
       /\ \E i \in 1..Len(INDIAN_STATES) : entry.name = INDIAN_STATES[i]
    \/ /\ entry.type = "district"
       /\ \E i \in 1..Len(MAJOR_DISTRICTS) : entry.name = MAJOR_DISTRICTS[i][1]

\* C6: every entry of the locations list the route returns is a state of
\* INDIAN_STATES or a district that is a key of MAJOR_DISTRICTS.
C6_OnlyHardcodedDetected ==
    \A k \in 1..Len(detResponse.locations) : Listed(detResponse.locations[k])

Detected(entry) ==
    \E k \in 1..Len(detResponse.locations) : detResponse.locations[k] = entry

\* C7: once the route has answered a text, each state of INDIAN_STATES the
\* text contains in any letter case is in the locations list as a state of
\* that name, and each district of MAJOR_DISTRICTS it contains is there as a
\* district of that name whose stateName is the state it is listed under.
C7_ListedLocationsDetected ==
    detResponse # NoResponse =>
        /\ \A i \in 1..Len(INDIAN_STATES) :
              ContainsAnyCase(detText, INDIAN_STATES[i])
                  => Detected(DetectedLocation("state", INDIAN_STATES[i], << >>))
        /\ \A i \in 1..Len(MAJOR_DISTRICTS) :
              ContainsAnyCase(detText, MAJOR_DISTRICTS[i][1])
                  => Detected(DetectedLocation("district", MAJOR_DISTRICTS[i][1],
                                               MAJOR_DISTRICTS[i][2]))

\* a text that names a state and a hardcoded district, neither in the letter
\* case of the lists, has been answered with both
C7_Witness ==
    /\ detResponse.status = 200
    /\ \E i \in 1..Len(INDIAN_STATES) :
          /\ ContainsAnyCase(detText, INDIAN_STATES[i])
          /\ ~includes(detText, INDIAN_STATES[i])
          /\ Detected(DetectedLocation("state", INDIAN_STATES[i], << >>))
    /\ \E i \in 1..Len(MAJOR_DISTRICTS) :
          /\ ContainsAnyCase(detText, MAJOR_DISTRICTS[i][1])
          /\ ~includes(detText, MAJOR_DISTRICTS[i][1])
          /\ Detected(DetectedLocation("district", MAJOR_DISTRICTS[i][1],
                                       MAJOR_DISTRICTS[i][2]))

-----------------------------------------------------------------------------
(* Properties of the projection.                                           *)

\* the scale that fits the bounds, padded by 2% of their extent on each side,
\* into a canvas of w by h
FitScale(b, w, h) ==
    RMin(RDiv(RInt(w), RMul(b.width, Rat(104, 100))),
         RDiv(RInt(h), RMul(b.height, Rat(104, 100))))

\* where a uniform scale s about the centre of the bounds, with the latitude
\* axis pointing up, puts the point c on a canvas of w by h
Fitted(b, w, h, c) ==
    LET s == FitScale(b, w, h)
        midLon == RDiv(RAdd(b.minLon, b.maxLon), RInt(2))
        midLat == RDiv(RAdd(b.minLat, b.maxLat), RInt(2))
    IN  [x |-> RAdd(Rat(w, 2), RMul(RSub(c[1], midLon), s)),
         y |-> RSub(Rat(h, 2), RMul(RSub(c[2], midLat), s))]

OnCanvas(p, w, h) ==
    /\ RLe(Zero, p.x) /\ RLe(p.x, RInt(w))
    /\ RLe(Zero, p.y) /\ RLe(p.y, RInt(h))

\* C9: for bounds of positive width and height and a point inside them,
\* ringToPath and projectPoint give the same x and y, with 0 <= x <= w and
\* 0 <= y <= h; x and y are the point's offsets from the centre of the bounds
\* times the one scale min(w/effW, h/effH) of the box padded by 2% on each
\* side, taken from the centre of the canvas; and of two points the one of
\* larger latitude has the smaller y.
C9_ProjectionFitsCanvas ==
    projOut.done =>
        /\ \A i \in 1..Len(projIn.ring) :
              /\ projOut.points[i].present
              /\ projOut.points[i].x = projOut.path[i].x
              /\ projOut.points[i].y = projOut.path[i].y
              /\ OnCanvas(projOut.path[i], projIn.w, projIn.h)
              /\ projOut.path[i] = Fitted(projIn.bounds, projIn.w, projIn.h, projIn.ring[i])
        /\ \A i, j \in 1..Len(projIn.ring) :
              RLt(projIn.ring[j][2], projIn.ring[i][2])
                  => RLt(projOut.path[i].y, projOut.path[j].y)

\* the top left corner and a point below it have been projected onto a canvas
\* whose height sets the scale
C9_Witness ==
    /\ projOut.done
    /\ projIn.ring[1] = <<projIn.bounds.minLon, projIn.bounds.maxLat>>
    /\ RLt(projIn.ring[2][2], projIn.ring[1][2])
    /\ RLt(RDiv(RInt(projIn.h), projIn.bounds.height),
           RDiv(RInt(projIn.w), projIn.bounds.width))
    /\ Len(projOut.path) = 2

-----------------------------------------------------------------------------
(* Properties of the zoom animation.                                       *)

\* a zoom has started and has not reached progress 1
ZoomRunning == zoomedFeature.feature # NoFeature /\ RLt(zoomedFeature.progress, One)

\* progress stays within [0, 1], and at 1 no animation frame is requested
C11_ProgressInRange ==
    /\ RLe(Zero, zoomedFeature.progress)
    /\ RLe(zoomedFeature.progress, One)
    /\ zoomedFeature.progress = One => ~animationFrameRef.pending

\* progress falls only when a dwell timer starts a zoom or the zoom is cleared
C11_ProgressNeverDecreases ==
    [][RLt(zoomedFeature'.progress, zoomedFeature.progress)
          => DwellFiredUndisturbed \/ zoomedFeature' = NoZoom]_vars

\* viewLevel changes only on the frame that brings progress to 1, to the
\* zoomed feature's type, or when the zoom is cleared
C11_ViewLevelSwitchesAtEnd ==
    [][viewLevel' # viewLevel =>
          \/ /\ zoomedFeature'.progress = One
             /\ RLt(zoomedFeature.progress, One)
             /\ viewLevel' = zoomedFeature'.type
          \/ zoomedFeature' = NoZoom]_vars

\* C11: a started zoom runs to completion and only then switches the view
\* level.  In every state progress is within [0, 1]; at progress 1 no frame
\* is requested and viewLevel is the zoomed feature's type; and a zoom whose
\* progress is below 1 has its next animation frame requested, so that it
\* goes on to progress 1 unless Reset or a reload clears it.
C11_ZoomRunsToCompletion ==
    /\ C11_ProgressInRange
    /\ zoomedFeature.progress = One => viewLevel = zoomedFeature.type
    /\ ZoomRunning => animationFrameRef.pending

\* a zoom at progress 0 with no frame requested and no timer pending: only
\* the mouse or Reset can change the state
C11_ZoomStuck ==
    /\ zoomedFeature.feature # NoFeature
    /\ zoomedFeature.progress = Zero
    /\ ~animationFrameRef.pending
    /\ ~hoverTimeoutRef.pending /\ ~debounceTimeoutRef.pending
    /\ ~hoverAnimationRef

\* C19: every zoom animation takes the full 600 ms from its own trigger:
\* the step in which the dwell timer sets zoomedFeature to a feature with
\* progress 0 leaves the animation's start time at the time of that step, so
\* that the frames before 600 ms later compute a progress below 1.
C19_ZoomStartsAtTrigger ==
    [][ZoomTriggered => zoomStartTimeRef' = now']_vars

\* the zoom triggered by the second mouse-enter of the behaviour is at
\* progress 1 less than 600 ms after its trigger
C19_FullZoomBeforeDuration ==
    /\ enters = 2
    /\ ~mouseAway
    /\ zoomedFeature.feature = lastEnter.feature
    /\ zoomedFeature.progress = One
    /\ now >= lastEnter.time + 2040
    /\ now < lastEnter.time + 2040 + duration
    /\ zoomStartTimeRef < lastEnter.time + 2040


-----------------------------------------------------------------------------
(* Properties of useDebouncedCallback.                                     *)

\* C12: the wrapped callback is invoked only while the component is mounted,
\* only for the most recent call of the debounced function (so never for a
\* call that a later one superseded), with that call's arguments, and only
\* once the delay of 300 ms has passed since that call.
C12_InvokedForLastCallAfterDelay ==
    [][dbInvoked' # dbInvoked =>
          /\ dbMounted'
          /\ dbInvoked'.id = dbLastCall.id
          /\ dbInvoked'.args = dbLastCall.args
          /\ dbInvoked'.time >= dbLastCall.time + DetectDelay]_vars

\* a call that superseded a pending one was invoked
C12_Witness ==
    /\ dbLastCall.pending = 1
    /\ dbLastCall.time > 0
    /\ dbInvoked.time >= dbLastCall.time + DetectDelay
    /\ dbInvoked.args = Str_goa


-----------------------------------------------------------------------------
(* Properties of the chat page.                                            *)

\* the step is a handler's call of sendMessage, and the text it is about
SendCallers == {"handleKeyPress", "clickSend", "handleSuggestionClick"}
SendCalled ==
    /\ chatVars' # chatVars
    /\ \/ lastHandler'.name \in SendCallers
       \/ lastHandler'.name = "stopListening" /\ lastHandler'.arg # << >>
TextOfSend == IF lastHandler'.arg # << >> THEN lastHandler'.arg ELSE input
SendAccepted == SendCalled /\ trim(TextOfSend) # << >> /\ ~isLoading

IsPlainMessage(m, role, content) ==
    m = [role |-> role, content |-> content, data |-> Undefined, chart |-> Undefined,
         locationInfo |-> Undefined, locations |-> Undefined]

\* the transcript is user, assistant, user, assistant, ..., with the last
\* user message unanswered exactly while loading, when a fetch is awaited
Alternating ==
    /\ \A i \in 1..Len(messages) :
          messages[i].role = (IF i % 2 = 1 THEN "user" ELSE "assistant")
    /\ isLoading <=> Len(messages) % 2 = 1
    /\ isLoading <=> sendPc.pc \in {"query", "detect"}

\* C13: an accepted sendMessage appends its text as one user message and sets
\* isLoading; the transcript changes only by an accepted send or by the one
\* assistant message (answer or error text) that ends the loading, always by
\* an append at the end, so each user message is directly followed by its
\* one reply; and when the fetches resolve or reject, loading ends.
C13_OneReplyPerSend ==
    /\ []Alternating
    /\ [][SendAccepted => /\ messages' = Append(messages, [role |-> "user", content |-> TextOfSend, data |-> Undefined, chart |-> Undefined, locationInfo |-> Undefined, locations |-> Undefined])
                          /\ isLoading']_vars
    /\ [][messages' # messages =>
             /\ Len(messages') = Len(messages) + 1
             /\ SubSeq(messages', 1, Len(messages)) = messages
             /\ SendAccepted \/ (isLoading /\ ~isLoading')
             /\ isLoading /\ ~isLoading' =>
                   messages'[Len(messages')].content \in {Str_answer, Str_error}]_vars
    /\ [][isLoading /\ ~isLoading' => messages' # messages]_vars
    /\ (isLoading ~> ~isLoading)

\* two sends, the first answered by the error text, the second by the backend
C13_Witness ==
    /\ Len(messages) = 4
    /\ ~isLoading
    /\ messages[2].content = Str_error
    /\ messages[4].content = Str_answer


IsPrefix(p, t) == Len(p) <= Len(t) /\ SubSeq(t, 1, Len(p)) = p

\* C14: when the /query fetch rejects, its status is not OK or its body does
\* not parse, sendMessage ends there: it appends one assistant message whose
\* text begins with the fixed apology and which has no data, chart,
\* locationInfo or locations, issues no request to /api/detect-location, and
\* sets isLoading to false.
C14_BackendFailureGivesErrorMessage ==
    [][lastHandler'.name = "queryResolves" /\ lastHandler'.arg \in {"rejects", "notOk", "badJson"} =>
          /\ Len(messages') = Len(messages) + 1
          /\ SubSeq(messages', 1, Len(messages)) = messages
          /\ messages'[Len(messages')].role = "assistant"
          /\ IsPrefix(Str_error_start, messages'[Len(messages')].content)
          /\ IsPlainMessage(messages'[Len(messages')], "assistant", messages'[Len(messages')].content)
          /\ fetches' = fetches
          /\ sendPc'.pc = "idle"
          /\ ~isLoading']_vars

\* the body of the backend's answer did not parse
C14_Witness ==
    /\ lastHandler = [name |-> "queryResolves", arg |-> "badJson"]
    /\ Len(messages) = 2
    /\ messages[2].content = Str_error
    /\ fetches = <<[url |-> "query", text |-> messages[1].content]>>
    /\ ~isLoading

\* C15: when the backend answered with a response object and the fetch of
\* /api/detect-location then rejects or comes back with a status that is not
\* OK, the assistant message appended has the backend's response text, data
\* and chart and neither locationInfo nor locations, and it is the only
\* message appended.
C15_DetectFailureKeepsAnswer ==
    [][/\ lastHandler'.name = "queryDetectResolves"
       /\ lastHandler'.arg \in {"rejects", "notOk"}
       /\ sendPc.dataKind = "ok"
       => /\ messages' = Append(messages,
                 [role |-> "assistant", content |-> sendPc.data.value.response,
                  data |-> sendPc.data.value.data, chart |-> sendPc.data.value.chart,
                  locationInfo |-> Undefined, locations |-> Undefined])
          /\ ~isLoading']_vars

\* the detection came back with a status that is not OK, the answer is shown
C15_Witness ==
    /\ lastHandler = [name |-> "queryDetectResolves", arg |-> "notOk"]
    /\ Len(messages) = 2
    /\ messages[2].content = Str_answer
    /\ messages[2].data = Defined("rows")
    /\ messages[2].chart = Defined("chart")
    /\ messages[2].locations = Undefined

\* C16: stopListening stops the recognition, sets isListening to false and,
\* when the text of the input field is not blank and nothing is loading,
\* sends that text as one user message; otherwise it sends nothing.
C16_StopSendsLatestInput ==
    [][lastHandler'.name = "stopListening" =>
          /\ recognitionRef' = "stopping"
          /\ ~isListening'
          /\ IF trim(input) # << >> /\ ~isLoading
             THEN /\ messages' = Append(messages,
                         [role |-> "user", content |-> input, data |-> Undefined,
                          chart |-> Undefined, locationInfo |-> Undefined,
                          locations |-> Undefined])
                  /\ fetches' = Append(fetches, [url |-> "query", text |-> input])
             ELSE messages' = messages /\ fetches' = fetches]_vars

\* the microphone was stopped with a spoken text in the input field and no
\* message was sent
C16_SpokenTextNotSent ==
    /\ lastHandler.name = "stopListening"
    /\ input = Str_hi
    /\ messages = << >>
    /\ fetches = << >>

\* C17: a sendMessage whose text (the argument, or the input field when there
\* is none) is empty or only whitespace appends no message, issues no request
\* and leaves input and isLoading as they are.
C17_BlankSendHasNoEffect ==
    [][SendCalled /\ trim(TextOfSend) = << >> =>
          UNCHANGED <<messages, fetches, input, isLoading, sendPc>>]_vars

\* Enter was pressed on an input field holding only spaces
C17_Witness ==
    /\ lastHandler = [name |-> "handleKeyPress", arg |-> << >>]
    /\ input = Str_spaces
    /\ messages = << >>
    /\ fetches = << >>
    /\ ~isLoading


-----------------------------------------------------------------------------
(* Properties of isPointInPolygon.                                         *)

\* a point and a ring on the grid of half steps, where both are integers
Doubled(ring) == [k \in 1..Len(ring) |-> <<2 * ring[k][1], 2 * ring[k][2]>>]
DoubledPoint(p) == <<(2 * p.x.n) \div p.x.d, (2 * p.y.n) \div p.y.d>>

OnBoundary(q, r) == \E k \in 1..(Len(r) - 1) : OnSegment(q, r[k], r[k + 1])

\* how often the ring winds round the point: the upward edges that pass the
\* point on its right less the downward edges that pass it on its right
RECURSIVE Winding(_, _, _)
Winding(q, r, k) ==
    IF k >= Len(r) THEN 0
    ELSE Winding(q, r, k + 1)
         + (IF r[k][2] <= q[2] /\ r[k + 1][2] > q[2] /\ Cross(r[k], r[k + 1], q) > 0 THEN 1
            ELSE IF r[k][2] > q[2] /\ r[k + 1][2] <= q[2] /\ Cross(r[k], r[k + 1], q) < 0 THEN -1
            ELSE 0)

\* the point is inside the simple ring
InsideRing(p, ring) == Winding(DoubledPoint(p), Doubled(ring), 1) # 0

OffBoundary(ring) == {p \in PipPoints : ~OnBoundary(DoubledPoint(p), Doubled(ring))}

\* C18: for a simple closed ring and every point off its boundary,
\* isPointInPolygon returns true exactly for the points inside the ring, and
\* the same for the ring taken the other way round or from another vertex.
C18_RayCastingCorrect ==
    pipOut.done =>
        \A p \in OffBoundary(pipRing) :
            /\ (p \in pipOut.given) <=> InsideRing(p, pipRing)
            /\ (p \in pipOut.reversed) <=> (p \in pipOut.given)
            /\ (p \in pipOut.rotated) <=> (p \in pipOut.given)

\* a concave ring, a point inside it whose ray passes through a vertex, and a
\* point in its notch whose ray passes through two
C18_Witness ==
    /\ pipOut.done
    /\ pipRing = <<<<0, 0>>, <<2, 1>>, <<0, 2>>, <<1, 1>>, <<0, 0>>>>
    /\ [x |-> Rat(3, 2), y |-> One] \in OffBoundary(pipRing)
    /\ [x |-> Rat(3, 2), y |-> One] \in pipOut.given
    /\ [x |-> Rat(1, 2), y |-> One] \in OffBoundary(pipRing)
    /\ [x |-> Rat(1, 2), y |-> One] \notin pipOut.given

====
